---- MODULE Spec2Model ----
(***************************************************************************)
(* Model of the RPC transaction plan executor of kit-plugins:              *)
(*   packages/kit-plugin-instruction-plan/src/rpc.ts                       *)
(* The leaf function executeTransactionMessage (blockhash, compute unit    *)
(* estimation, signing, send-and-confirm), the concurrency limiter         *)
(* limitFunction that wraps it, and the plan traversal that calls it.      *)
(* The traversal (createTransactionPlanExecutor) is imported from          *)
(* @solana/kit; it is modelled from spec.md sections 4.3, 5 and 7.         *)
(* The LiteSVM transaction plan executor and its error normalizer:         *)
(*   packages/kit-plugin-litesvm/src/transaction-plan-executor.ts          *)
(*   packages/kit-plugin-litesvm/src/transaction-error.ts                  *)
(* The installation checks of the planner and executor plugins, the        *)
(* messages their planners create:                                         *)
(*   packages/kit-plugin-litesvm/src/transaction-planner.ts                *)
(* and the send/plan helper planAndSendTransactions (planTransaction,      *)
(* planTransactions, sendTransaction, sendTransactions).                   *)
(***************************************************************************)
EXTENDS Integers, Sequences, FiniteSets, TLC

(***************************************************************************)
(* Bounds                                                                  *)
(***************************************************************************)
\* maxConcurrency ranges over 1..MaxConcurrencyBound.
MaxConcurrencyBound == 2
\* The index of a failing instruction ranges over 0..MaxInstructionIndex.
MaxInstructionIndex == 1
\* A planner is asked for at most MaxMessages transaction messages.
MaxMessages == 2
\* The limited function is called at most MaxCalls times.
MaxCalls == 3

(***************************************************************************)
(* Program constants                                                       *)
(***************************************************************************)
PROVISORY_COMPUTE_UNIT_LIMIT == 0
MAX_COMPUTE_UNIT_LIMIT == 1400000
\* The explicit limit used by the tests (updateOrAppendSetComputeUnitLimitInstruction(500, tx)).
EXPLICIT_COMPUTE_UNIT_LIMIT == 500

(***************************************************************************)
(* Transaction plans.  A leaf carries the index of its message.            *)
(***************************************************************************)
singleTransactionPlan(i) == [kind |-> "single", id |-> i, plans |-> <<>>]
sequentialTransactionPlan(ps) == [kind |-> "sequential", id |-> 0, plans |-> ps]
parallelTransactionPlan(ps) == [kind |-> "parallel", id |-> 0, plans |-> ps]

\* The plans executed.  Leaves are numbered in depth-first order.
FourBranchPlan ==
    parallelTransactionPlan(<<singleTransactionPlan(1), singleTransactionPlan(2),
                              singleTransactionPlan(3), singleTransactionPlan(4)>>)

PlanSet ==
    { singleTransactionPlan(1),
      sequentialTransactionPlan(<<singleTransactionPlan(1), singleTransactionPlan(2),
                                  singleTransactionPlan(3)>>),
      sequentialTransactionPlan(<<parallelTransactionPlan(<<singleTransactionPlan(1),
                                                            singleTransactionPlan(2)>>),
                                  singleTransactionPlan(3)>>),
      parallelTransactionPlan(<<sequentialTransactionPlan(<<singleTransactionPlan(1),
                                                            singleTransactionPlan(2)>>),
                                singleTransactionPlan(3)>>) }

RECURSIVE LeafIds(_)
LeafIds(p) ==
    IF p.kind = "single" THEN {p.id}
    ELSE UNION { LeafIds(p.plans[i]) : i \in 1..Len(p.plans) }

Leaves == UNION { LeafIds(p) : p \in PlanSet \cup {FourBranchPlan} }

(***************************************************************************)
(* Transaction messages: what findSetComputeUnitLimitInstructionIndexAnd-  *)
(* Units sees in them.                                                     *)
(***************************************************************************)
NoLimit == [hasLimit |-> FALSE, units |-> 0]
WithLimit(u) == [hasLimit |-> TRUE, units |-> u]

MessageSet ==
    { NoLimit, WithLimit(PROVISORY_COMPUTE_UNIT_LIMIT), WithLimit(MAX_COMPUTE_UNIT_LIMIT),
      WithLimit(EXPLICIT_COMPUTE_UNIT_LIMIT) }

\* Units consumed that the simulation of the RPC reports.
UnitsSet == {42, 50}

\* config.skipPreflight as given to the plugin.
SkipPreflightOptions == {"undefined", "false", "true"}

VARIABLES
    plan,            \* the transaction plan given to transactionPlanExecutor
    plannedMessage,  \* leaf -> the message of the plan's leaf
    skipPreflight,   \* config.skipPreflight
    maxConcurrency,  \* config.maxConcurrency
    unitsConsumed,   \* RPC: the units consumed that simulateTransaction reports
    sendRejection,   \* RPC: the error sendAndConfirmTransaction rejects with, when it does
    phase,           \* "idle", "executing", "returned", "thrown"
    running,         \* limitFunction: running
    queue,           \* limitFunction: queue (leaves, oldest first)
    pc,              \* leaf -> where its execution stands
    message,         \* leaf -> context.message
    simulateCalls,   \* leaf -> number of simulateTransaction calls made
    sendCalls,       \* leaf -> sequence of the options of each sendAndConfirmTransaction call
    simulated,       \* leaf -> result of its estimation simulation
    error,           \* leaf -> error held by its failed result
    result,          \* the result tree of the executor call, once it has settled
    submitted,       \* leaves in the order they were given to the limited function
    started,         \* leaves in the order the limiter started them
    completed,       \* leaves in the order their executions settled
    svmResult,       \* LiteSVM: what client.svm.sendTransaction returns
    svmPc,           \* LiteSVM executor: "idle", "sign", "returned", "thrown"
    svmContext,      \* LiteSVM executor: the context of the leaf
    svmLeafResult,   \* LiteSVM executor: the result of the leaf
    svmThrown,       \* LiteSVM executor: the error the executor call rejected with, if any
    client,          \* installation: the capabilities of the client the plugin is installed on
    pluginConfig,    \* installation: the plugin and the config it is given
    installPc,       \* installation: "pending", "installed", "thrown"
    built,           \* planner: the messages createTransactionMessage has returned
    helperCall,      \* send/plan helper: the function called, its input and its config
    aborted,         \* send/plan helper: config.abortSignal.aborted
    helperPc,        \* send/plan helper: "idle", "planning", "executing", "returned", "thrown"
    plannerCalls,    \* send/plan helper: the inputs client.transactionPlanner was called with
    executorCalls,   \* send/plan helper: the plans client.transactionPlanExecutor was called with
    plannerResults,  \* send/plan helper: the plans the planner resolved with
    executorResults, \* send/plan helper: the results the executor resolved with
    helperOutcome,   \* send/plan helper: what the call resolved or rejected with
    throwsSynchronously, \* limitFunction: the arguments on which fn throws instead of returning a promise
    limiters,        \* limitFunction: closure -> its running and its queue
    limitedCalls,    \* limitFunction: the calls of the limited function and their promises
    fnCalls          \* limitFunction: the calls of fn that process() has made

vars == <<plan, plannedMessage, skipPreflight, maxConcurrency, unitsConsumed, sendRejection, phase, running, queue, pc,
          message, simulateCalls, sendCalls, simulated, error, result, submitted, started,
          completed, svmResult, svmPc, svmContext, svmLeafResult, svmThrown,
          client, pluginConfig, installPc, built,
          helperCall, aborted, helperPc, plannerCalls, executorCalls, plannerResults,
          executorResults, helperOutcome,
          throwsSynchronously, limiters, limitedCalls, fnCalls>>

\* The state of the closures of limitFunction and of the calls made through
\* them.
limiterVars == <<throwsSynchronously, limiters, limitedCalls, fnCalls>>

\* The state of the LiteSVM executor.
svmVars == <<svmResult, svmPc, svmContext, svmLeafResult, svmThrown>>

\* The state of a plugin installation and of the planner it installs.
installVars == <<client, pluginConfig, installPc, built>>

\* The state of a call of the send/plan helper.
helperVars == <<helperCall, aborted, helperPc, plannerCalls, executorCalls, plannerResults,
                executorResults, helperOutcome>>

\* The state of the RPC executor.
rpcVars == <<plan, plannedMessage, skipPreflight, maxConcurrency, unitsConsumed, sendRejection,
             phase, running, queue, pc, message, simulateCalls, sendCalls, simulated, error,
             result, submitted, started, completed>>

Range(f) == { f[i] : i \in DOMAIN f }

(***************************************************************************)
(* Errors.  An error has a code and possibly a cause.                      *)
(***************************************************************************)
NoError == [code |-> "none", cause |-> "none"]
\* SolanaError(FAILED_WHEN_SIMULATING_TO_ESTIMATE_COMPUTE_LIMIT, {cause, unitsConsumed})
SimulationFailedError == [code |-> "FAILED_WHEN_SIMULATING_TO_ESTIMATE_COMPUTE_LIMIT",
                          cause |-> "TransactionError"]
TransportError == [code |-> "TransportError", cause |-> "none"]
SignerError == [code |-> "SignerError", cause |-> "none"]
SendErrors == { [code |-> "TransactionError", cause |-> "none"], SimulationFailedError }

\* unwrapSimulationError of @solana/kit (spec.md 4.3 step 6).
unwrapSimulationError(e) ==
    IF e.code = "FAILED_WHEN_SIMULATING_TO_ESTIMATE_COMPUTE_LIMIT" /\ e.cause # "none"
    THEN [code |-> e.cause, cause |-> "none"]
    ELSE e

(***************************************************************************)
(* Compute unit estimation                                                 *)
(***************************************************************************)
\* Mutant: the maximum compute unit limit is not recognised as a sentinel.
needsComputeUnitEstimation_NoMax(m) ==
    \/ ~m.hasLimit
    \/ m.units = PROVISORY_COMPUTE_UNIT_LIMIT

needsComputeUnitEstimation(m) ==
    \/ ~m.hasLimit
    \/ m.units = PROVISORY_COMPUTE_UNIT_LIMIT
    \/ m.units = MAX_COMPUTE_UNIT_LIMIT

RECURSIVE Pow2Floor(_)
\* The largest power of two that is at most n (n >= 1).
Pow2Floor(n) == IF n < 2 THEN 1 ELSE 2 * Pow2Floor(n \div 2)

\* Math.ceil(estimatedUnits * 1.1) in IEEE-754 double arithmetic.  The
\* double nearest to 1.1 is 1.1 + 0.4 * 2^-52, so the exact product is
\* 1.1*u + 0.4*u*2^-52.  When 10 does not divide u, the product is at least
\* 0.1 away from an integer and rounding cannot move the ceiling.  When
\* u = 10*m, the product is 11*m + 4*m*2^-52 and rounds to a double above
\* 11*m exactly when 4*m*2^-52 exceeds half an ulp of 11*m, that is when
\* 8*m > Pow2Floor(11*m) (a tie goes to the even significand, 11*m).
MathCeilTimes1_1(u) ==
    IF u % 10 # 0 THEN (11 * u) \div 10 + 1
    ELSE LET m == u \div 10
         IN  IF m > 0 /\ 8 * m > Pow2Floor(11 * m) THEN 11 * m + 1 ELSE 11 * m

updateOrAppendSetComputeUnitLimitInstruction(units, m) == WithLimit(units)

\* Mutant: an unset skipPreflight counts as true.
SkipPreflightOrFalse_UnsetIsTrue == skipPreflight # "false"

\* config.skipPreflight ?? false
SkipPreflightOrFalse == skipPreflight = "true"

\* Mutant: preflight is always skipped.
SendSkipPreflight_Always(needsCuEstimation) == TRUE

\* Mutant: only the configured option decides.
SendSkipPreflight_ConfigOnly(needsCuEstimation) == skipPreflight = "true"

\* config.skipPreflight || needsCuEstimation
SendSkipPreflight(needsCuEstimation) == skipPreflight = "true" \/ needsCuEstimation

(***************************************************************************)
(* The mutable state as one record, so that the steps of a handler can be  *)
(* composed.                                                               *)
(***************************************************************************)
St ==
    [phase |-> phase, running |-> running, queue |-> queue, pc |-> pc, message |-> message,
     simulateCalls |-> simulateCalls, sendCalls |-> sendCalls, simulated |-> simulated,
     error |-> error, result |-> result, submitted |-> submitted, started |-> started,
     completed |-> completed]

Commit(s) ==
    /\ phase' = s.phase
    /\ running' = s.running
    /\ queue' = s.queue
    /\ pc' = s.pc
    /\ message' = s.message
    /\ simulateCalls' = s.simulateCalls
    /\ sendCalls' = s.sendCalls
    /\ simulated' = s.simulated
    /\ error' = s.error
    /\ result' = s.result
    /\ submitted' = s.submitted
    /\ started' = s.started
    /\ completed' = s.completed
    /\ UNCHANGED <<plan, plannedMessage, skipPreflight, maxConcurrency, unitsConsumed,
                   sendRejection>>
    /\ UNCHANGED svmVars
    /\ UNCHANGED installVars
    /\ UNCHANGED helperVars
    /\ UNCHANGED limiterVars

(***************************************************************************)
(* limitFunction                                                           *)
(***************************************************************************)
\* The synchronous start of executeTransactionMessage for leaf l: it reads
\* needsComputeUnitEstimation and issues getLatestBlockhash().send().
StartExecution(s, l) == [s EXCEPT !.pc[l] = "blockhash", !.started = Append(@, l)]

\* Mutant: a call is started without raising the counter.
process_CounterNotRaised(s) ==
    IF s.running >= maxConcurrency \/ Len(s.queue) = 0 THEN s
    ELSE StartExecution([s EXCEPT !.queue = Tail(@)], Head(s.queue))

\* Mutant: the bound is compared with > instead of >=.
process_OffByOne(s) ==
    IF s.running > maxConcurrency \/ Len(s.queue) = 0 THEN s
    ELSE StartExecution([s EXCEPT !.running = @ + 1, !.queue = Tail(@)], Head(s.queue))

\* Mutant: queue.pop() instead of queue.shift().
process_Lifo(s) ==
    IF s.running >= maxConcurrency \/ Len(s.queue) = 0 THEN s
    ELSE StartExecution([s EXCEPT !.running = @ + 1,
                                  !.queue = SubSeq(@, 1, Len(@) - 1)],
                        s.queue[Len(s.queue)])

process(s) ==
    IF s.running >= maxConcurrency \/ Len(s.queue) = 0 THEN s
    ELSE StartExecution([s EXCEPT !.running = @ + 1, !.queue = Tail(@)], Head(s.queue))

\* The function returned by limitFunction, called for leaf l.
limited(s, l) ==
    process([s EXCEPT !.queue = Append(@, l), !.pc[l] = "queued", !.submitted = Append(@, l)])

\* Mutant: the finally callback does not call process().
finally_NoProcess(s) == [s EXCEPT !.running = @ - 1]

\* Mutant: the finally callback does not decrement running.
finally_NoDecrement(s) == process(s)

\* The finally callback of a started call.
finally(s) == process([s EXCEPT !.running = @ - 1])

(***************************************************************************)
(* Plan traversal (createTransactionPlanExecutor)                          *)
(***************************************************************************)
RECURSIVE SubPlan(_, _)
SubPlan(node, path) ==
    IF path = <<>> THEN node ELSE SubPlan(node.plans[Head(path)], Tail(path))

NodeAt(path) == SubPlan(plan, path)

RECURSIVE Paths(_)
\* The paths of all nodes below (and including) a node.
Paths(node) ==
    {<<>>} \cup UNION { { <<i>> \o q : q \in Paths(node.plans[i]) } : i \in 1..Len(node.plans) }

PathOf(l) == CHOOSE path \in Paths(plan) : NodeAt(path).kind = "single" /\ NodeAt(path).id = l

Parent(path) == SubSeq(path, 1, Len(path) - 1)

TerminalStatus == {"successful", "failed", "canceled"}

Complete(s, node) == \A l \in LeafIds(node) : s.pc[l] \in TerminalStatus

Unsuccessful(s, node) == \E l \in LeafIds(node) : s.pc[l] \in {"failed", "canceled"}

\* Mutant: no leaf is ever canceled.
IsCanceled_Never(s, path) == FALSE

\* A leaf is canceled instead of executed when an earlier sibling in an
\* enclosing sequential chain did not succeed.
IsCanceled(s, path) ==
    \E k \in 1..Len(path) :
        LET chain == NodeAt(SubSeq(path, 1, k - 1))
        IN  /\ chain.kind = "sequential"
            /\ \E j \in 1..(path[k] - 1) : Unsuccessful(s, chain.plans[j])

NoResult == [kind |-> "none", id |-> 0, status |-> "none", plans |-> <<>>]

RECURSIVE TransactionPlanResult_DropCanceled(_, _)
\* Mutant: canceled children are left out of the result of their parent.
TransactionPlanResult_DropCanceled(s, node) ==
    IF node.kind = "single"
    THEN [kind |-> "single", id |-> node.id, status |-> s.pc[node.id], plans |-> <<>>]
    ELSE LET kept(i) == \E l \in LeafIds(node.plans[i]) : s.pc[l] # "canceled"
             RECURSIVE Results(_)
             Results(i) ==
                 IF i > Len(node.plans) THEN <<>>
                 ELSE (IF kept(i)
                       THEN <<TransactionPlanResult_DropCanceled(s, node.plans[i])>>
                       ELSE <<>>) \o Results(i + 1)
         IN  [kind |-> node.kind, id |-> 0, status |-> "none", plans |-> Results(1)]

\* The position of x in the sequence q, 0 when x is not in q.
Pos(q, x) == IF \E i \in 1..Len(q) : q[i] = x THEN CHOOSE i \in 1..Len(q) : q[i] = x ELSE 0

RECURSIVE TransactionPlanResult_CompletionOrder(_, _)
\* Mutant: the results of the branches of a parallel node are collected in
\* the order in which the branches completed.
TransactionPlanResult_CompletionOrder(s, node) ==
    IF node.kind = "single"
    THEN [kind |-> "single", id |-> node.id, status |-> s.pc[node.id], plans |-> <<>>]
    ELSE LET n == Len(node.plans)
             RECURSIVE MaxPos(_)
             MaxPos(ls) ==
                 IF ls = {} THEN 0
                 ELSE LET l == CHOOSE x \in ls : TRUE
                          rest == MaxPos(ls \ {l})
                      IN  IF Pos(s.completed, l) > rest THEN Pos(s.completed, l) ELSE rest
             key(i) == MaxPos(LeafIds(node.plans[i]))
             Rank(i) == 1 + Cardinality({ j \in 1..n :
                                           key(j) < key(i) \/ (key(j) = key(i) /\ j < i) })
             child(r) == IF node.kind = "parallel" THEN CHOOSE i \in 1..n : Rank(i) = r ELSE r
         IN  [kind |-> node.kind, id |-> 0, status |-> "none",
              plans |-> [r \in 1..n |->
                            TransactionPlanResult_CompletionOrder(s, node.plans[child(r)])]]

RECURSIVE TransactionPlanResult(_, _)
\* The result tree of a node: a leaf result holds the status of its leaf,
\* the result of a sequential or parallel node holds its children's results.
TransactionPlanResult(s, node) ==
    IF node.kind = "single"
    THEN [kind |-> "single", id |-> node.id, status |-> s.pc[node.id], plans |-> <<>>]
    ELSE [kind |-> node.kind, id |-> 0, status |-> "none",
          plans |-> [i \in 1..Len(node.plans) |-> TransactionPlanResult(s, node.plans[i])]]

\* The executor call settles: it throws the failed-to-execute envelope
\* (which carries the result tree) when some leaf failed and returns the
\* result tree otherwise.
\* Mutant: the error of a failed execution carries no result tree.
Finish_FailureWithoutResult(s) ==
    IF \E l \in LeafIds(plan) : s.pc[l] = "failed"
    THEN [s EXCEPT !.phase = "thrown"]
    ELSE [s EXCEPT !.phase = "returned", !.result = TransactionPlanResult(s, plan)]

Finish(s) ==
    [s EXCEPT !.phase = IF \E l \in LeafIds(plan) : s.pc[l] = "failed"
                        THEN "thrown" ELSE "returned",
              !.result = TransactionPlanResult(s, plan)]

RECURSIVE traverse(_, _), traverseFrom(_, _, _), resolved(_, _)
\* Mutant: the children of a sequential node are all visited at once.
traverse_SequentialAsParallel(s, path) ==
    LET node == NodeAt(path)
    IN  IF node.kind = "single"
        THEN IF IsCanceled(s, path)
             THEN resolved([s EXCEPT !.pc[node.id] = "canceled"], path)
             ELSE limited(s, node.id)
        ELSE traverseFrom(s, path, 1)

\* traverse(s, path): the synchronous part of visiting the node at path.
traverse(s, path) ==
    LET node == NodeAt(path)
    IN  CASE node.kind = "single" ->
                IF IsCanceled(s, path)
                THEN resolved([s EXCEPT !.pc[node.id] = "canceled"], path)
                ELSE limited(s, node.id)
          [] node.kind = "sequential" -> traverse(s, path \o <<1>>)
          [] node.kind = "parallel" -> traverseFrom(s, path, 1)

\* Visits the children i, i+1, ... of the parallel node at path.
traverseFrom(s, path, i) ==
    IF i > Len(NodeAt(path).plans) THEN s
    ELSE traverseFrom(traverse(s, path \o <<i>>), path, i + 1)

\* resolved(s, path): the result of the node at path is available; its
\* parent continues.
resolved(s, path) ==
    IF path = <<>> THEN Finish(s)
    ELSE LET parent == NodeAt(Parent(path))
             i == path[Len(path)]
         IN  IF parent.kind = "sequential"
             THEN IF i < Len(parent.plans)
                  THEN traverse(s, Parent(path) \o <<i + 1>>)
                  ELSE resolved(s, Parent(path))
             ELSE IF Complete(s, parent) THEN resolved(s, Parent(path)) ELSE s

(***************************************************************************)
(* executeTransactionMessage, one action per resolution of an awaited call *)
(***************************************************************************)
\* The promise of the limited call for leaf l settles: the slot is freed,
\* the next queued call starts and the traversal continues.
Settle(s, l, status, e) ==
    resolved(finally([s EXCEPT !.pc[l] = status, !.error[l] = e,
                               !.completed = Append(@, l)]), PathOf(l))

\* Mutant: a rejection does not reach the finally callback.
Throw_SlotNotFreed(s, l, e) ==
    resolved([s EXCEPT !.pc[l] = "failed", !.error[l] = unwrapSimulationError(e),
                       !.completed = Append(@, l)], PathOf(l))

\* Mutant: the catch block rethrows the error as caught.
Throw_NoUnwrap(s, l, e) == Settle(s, l, "failed", e)

\* The catch block of executeTransactionMessage rethrows the unwrapped error.
Throw(s, l, e) == Settle(s, l, "failed", unwrapSimulationError(e))

\* signTransactionMessageWithSigners is called with the current message.
CallSign(s, l) == [s EXCEPT !.pc[l] = "sign"]

\* Mutant: the units are set without the 10% buffer.
SetEstimatedUnits_NoBuffer(s, l, estimatedUnits) ==
    CallSign([s EXCEPT !.message[l] =
                  updateOrAppendSetComputeUnitLimitInstruction(estimatedUnits, s.message[l])], l)

\* const units = Math.ceil(estimatedUnits * 1.1); the updated message is
\* then signed.
SetEstimatedUnits(s, l, estimatedUnits) ==
    CallSign([s EXCEPT !.message[l] =
                  updateOrAppendSetComputeUnitLimitInstruction(
                      MathCeilTimes1_1(estimatedUnits), s.message[l])], l)

\* transactionPlanExecutor(plan)
Execute ==
    /\ phase = "idle"
    /\ Commit(traverse([St EXCEPT !.phase = "executing"], <<>>))

\* getLatestBlockhash().send() resolves or rejects.
GetLatestBlockhash(l) ==
    /\ pc[l] = "blockhash"
    /\ \/ Commit(IF needsComputeUnitEstimation(plannedMessage[l])
                 THEN [St EXCEPT !.pc[l] = "estimate", !.simulateCalls[l] = @ + 1]
                 ELSE CallSign(St, l))
       \/ Commit(Throw(St, l, TransportError))

\* Mutant: the estimate is not written to the message.
EstimateSucceeds_MessageKept(l) ==
    /\ pc[l] = "estimate"
    /\ Commit(CallSign([St EXCEPT !.simulated[l] = "ok"], l))

\* estimateCULimit resolves with the units consumed.
EstimateSucceeds(l) ==
    /\ pc[l] = "estimate"
    /\ Commit(SetEstimatedUnits([St EXCEPT !.simulated[l] = "ok"], l, unitsConsumed))

\* estimateCULimit rejects because the simulation failed.
EstimateFailsSimulation(l) ==
    /\ pc[l] = "estimate"
    /\ LET s == [St EXCEPT !.simulated[l] = "failed"]
       IN  Commit(IF SkipPreflightOrFalse
                  THEN SetEstimatedUnits(s, l, unitsConsumed)
                  ELSE Throw(s, l, SimulationFailedError))

\* Mutant: under skipPreflight the fallback is taken for any error of the
\* estimation.
EstimateRejects_FallbackOnAnyError(l) ==
    /\ pc[l] = "estimate"
    /\ LET s == [St EXCEPT !.simulated[l] = "error"]
       IN  Commit(IF SkipPreflightOrFalse
                  THEN SetEstimatedUnits(s, l, unitsConsumed)
                  ELSE Throw(s, l, TransportError))

\* estimateCULimit rejects with any other error.
EstimateRejects(l) ==
    /\ pc[l] = "estimate"
    /\ Commit(Throw([St EXCEPT !.simulated[l] = "error"], l, TransportError))

\* signTransactionMessageWithSigners resolves; sendAndConfirmTransaction is called.
SignResolves(l) ==
    /\ pc[l] = "sign"
    /\ Commit([St EXCEPT
                 !.pc[l] = "send",
                 !.sendCalls[l] = Append(@,
                     [commitment |-> "confirmed",
                      skipPreflight |->
                          SendSkipPreflight(needsComputeUnitEstimation(plannedMessage[l])),
                      message |-> message[l]])])

\* Mutant: the transaction is sent although signing rejected.
SignRejects_SentAnyway(l) ==
    /\ pc[l] = "sign"
    /\ Commit(Throw([St EXCEPT !.sendCalls[l] =
                         Append(@, [commitment |-> "confirmed",
                                    skipPreflight |-> SendSkipPreflight(
                                        needsComputeUnitEstimation(plannedMessage[l])),
                                    message |-> message[l]])], l, SignerError))

\* signTransactionMessageWithSigners rejects.
SignRejects(l) ==
    /\ pc[l] = "sign"
    /\ Commit(Throw(St, l, SignerError))

SendResolves(l) ==
    /\ pc[l] = "send"
    /\ Commit(Settle(St, l, "successful", NoError))

SendRejects(l) ==
    /\ pc[l] = "send"
    /\ Commit(Throw(St, l, sendRejection))

(***************************************************************************)
(* LiteSVM: the values sendTransaction returns                             *)
(***************************************************************************)
\* TransactionMetadata has no err method.
TransactionMetadata == [logs |-> <<>>]
\* FailedTransactionMetadata: e is what its err() method returns.
FailedTransactionMetadata(e) == [logs |-> <<>>, err |-> e]

\* A fieldless enum variant is a plain number at runtime.
Number(n) == [typeof |-> "number", value |-> n]
Null == [typeof |-> "object", null |-> TRUE]
Undefined == [typeof |-> "undefined"]
\* The class-based variants of the simulator's errors; constructor is
\* err.constructor.name.
TransactionErrorInstructionError(index, e) ==
    [typeof |-> "object", null |-> FALSE, constructor |-> "TransactionErrorInstructionError",
     index |-> index, err |-> e]
TransactionErrorDuplicateInstruction(index) ==
    [typeof |-> "object", null |-> FALSE, constructor |-> "TransactionErrorDuplicateInstruction",
     index |-> index]
TransactionErrorInsufficientFundsForRent(accountIndex) ==
    [typeof |-> "object", null |-> FALSE,
     constructor |-> "TransactionErrorInsufficientFundsForRent", accountIndex |-> accountIndex]
TransactionErrorProgramExecutionTemporarilyRestricted(accountIndex) ==
    [typeof |-> "object", null |-> FALSE,
     constructor |-> "TransactionErrorProgramExecutionTemporarilyRestricted",
     accountIndex |-> accountIndex]
InstructionErrorCustom(code) ==
    [typeof |-> "object", null |-> FALSE, constructor |-> "InstructionErrorCustom", code |-> code]
InstructionErrorBorshIo(msg) ==
    [typeof |-> "object", null |-> FALSE, constructor |-> "InstructionErrorBorshIo", msg |-> msg]
\* An object of a class the normalizer does not know.
ObjectOfOtherClass == [typeof |-> "object", null |-> FALSE, constructor |-> "Object"]

TRANSACTION_ERROR_NAMES ==
    <<"AccountInUse", "AccountLoadedTwice", "AccountNotFound",
      "ProgramAccountNotFound", "InsufficientFundsForFee",
      "InvalidAccountForFee", "AlreadyProcessed", "BlockhashNotFound",
      "CallChainTooDeep", "MissingSignatureForFee", "InvalidAccountIndex",
      "SignatureFailure", "InvalidProgramForExecution", "SanitizeFailure",
      "ClusterMaintenance", "AccountBorrowOutstanding",
      "WouldExceedMaxBlockCostLimit", "UnsupportedVersion",
      "InvalidWritableAccount", "WouldExceedMaxAccountCostLimit",
      "WouldExceedAccountDataBlockLimit", "TooManyAccountLocks",
      "AddressLookupTableNotFound", "InvalidAddressLookupTableOwner",
      "InvalidAddressLookupTableData", "InvalidAddressLookupTableIndex",
      "InvalidRentPayingAccount", "WouldExceedMaxVoteCostLimit",
      "WouldExceedAccountDataTotalLimit",
      "MaxLoadedAccountsDataSizeExceeded", "ResanitizationNeeded",
      "InvalidLoadedAccountsDataSizeLimit", "UnbalancedTransaction",
      "ProgramCacheHitMaxLimit", "CommitCancelled">>

INSTRUCTION_ERROR_NAMES ==
    <<"GenericError", "InvalidArgument", "InvalidInstructionData",
      "InvalidAccountData", "AccountDataTooSmall", "InsufficientFunds",
      "IncorrectProgramId", "MissingRequiredSignature",
      "AccountAlreadyInitialized", "UninitializedAccount",
      "UnbalancedInstruction", "ModifiedProgramId",
      "ExternalAccountLamportSpend", "ExternalAccountDataModified",
      "ReadonlyLamportChange", "ReadonlyDataModified",
      "DuplicateAccountIndex", "ExecutableModified", "RentEpochModified",
      "NotEnoughAccountKeys", "AccountDataSizeChanged",
      "AccountNotExecutable", "AccountBorrowFailed",
      "AccountBorrowOutstanding", "DuplicateAccountOutOfSync",
      "InvalidError", "ExecutableDataModified", "ExecutableLamportChange",
      "ExecutableAccountNotRentExempt", "UnsupportedProgramId", "CallDepth",
      "MissingAccount", "ReentrancyNotAllowed", "MaxSeedLengthExceeded",
      "InvalidSeeds", "InvalidRealloc", "ComputationalBudgetExceeded",
      "PrivilegeEscalation", "ProgramEnvironmentSetupFailure",
      "ProgramFailedToComplete", "ProgramFailedToCompile", "Immutable",
      "IncorrectAuthority", "AccountNotRentExempt", "InvalidAccountOwner",
      "ArithmeticOverflow", "UnsupportedSysvar", "IllegalOwner",
      "MaxAccountsDataAllocationsExceeded", "MaxAccountsExceeded",
      "MaxInstructionTraceLengthExceeded",
      "BuiltinProgramsMustConsumeComputeUnits", "BorshIoError">>

\* The instruction indexes, custom program error codes and Borsh messages
\* of the failures the simulator is made to report.
InstructionIndexes == 0..MaxInstructionIndex
CustomCodes == {0, 6000}
BorshMessages == {"Unexpected length of input"}

\* The ordinals the simulator is made to report: every ordinal of a lookup
\* table, and the two nearest ordinals outside of it.
OrdinalsAround(names) == (0 - 1)..Len(names)

InstructionErrors ==
    { Number(n) : n \in OrdinalsAround(INSTRUCTION_ERROR_NAMES) }
    \cup { InstructionErrorCustom(c) : c \in CustomCodes }
    \cup { InstructionErrorBorshIo(m) : m \in BorshMessages }
    \cup { ObjectOfOtherClass }

TransactionErrors ==
    { Number(n) : n \in OrdinalsAround(TRANSACTION_ERROR_NAMES) }
    \cup { TransactionErrorInstructionError(i, e) : i \in InstructionIndexes, e \in InstructionErrors }
    \cup { TransactionErrorDuplicateInstruction(i) : i \in InstructionIndexes }
    \cup { TransactionErrorInsufficientFundsForRent(i) : i \in InstructionIndexes }
    \cup { TransactionErrorProgramExecutionTemporarilyRestricted(i) : i \in InstructionIndexes }
    \cup { ObjectOfOtherClass, Null, Undefined }

SendTransactionResults ==
    { TransactionMetadata } \cup { FailedTransactionMetadata(e) : e \in TransactionErrors }

(***************************************************************************)
(* LiteSVM: the error normalizer (transaction-error.ts)                    *)
(***************************************************************************)
\* The JSON encoding of a TransactionError as returned by the Solana RPC: a
\* plain string, or an object with one key.
JsonString(str) == [json |-> "string", str |-> str]
JsonInstructionError(index, inner) ==
    [json |-> "object", key |-> "InstructionError", index |-> index, inner |-> inner]
JsonDuplicateInstruction(index) ==
    [json |-> "object", key |-> "DuplicateInstruction", index |-> index]
JsonAccountIndex(key, accountIndex) ==
    [json |-> "object", key |-> key, account_index |-> accountIndex]
JsonCustom(code) == [json |-> "object", key |-> "Custom", code |-> code]
JsonBorshIoError(msg) == [json |-> "object", key |-> "BorshIoError", msg |-> msg]

\* Mutant: an ordinal outside the table is read as the nearest entry.
NameOrUnknown_Clamped(names, n) ==
    IF n < 0 THEN names[1] ELSE IF n >= Len(names) THEN names[Len(names)] ELSE names[n + 1]

\* names[err] ?? `Unknown(${err})`
NameOrUnknown(names, n) ==
    IF n \in 0..(Len(names) - 1) THEN names[n + 1] ELSE "Unknown(" \o ToString(n) \o ")"

\* String(err) of a value that is not a number.
String(err) ==
    IF err.typeof = "undefined" THEN "undefined"
    ELSE IF err.null THEN "null"
    ELSE "[object Object]"

\* Mutant: the class of a custom program error is not recognised.
convertInstructionError_CustomNotRecognised(err) ==
    IF err.typeof = "number" THEN JsonString(NameOrUnknown(INSTRUCTION_ERROR_NAMES, err.value))
    ELSE IF err.typeof = "object" /\ ~err.null /\ err.constructor = "InstructionErrorBorshIo"
    THEN JsonBorshIoError(err.msg)
    ELSE JsonString(String(err))

convertInstructionError(err) ==
    IF err.typeof = "number" THEN JsonString(NameOrUnknown(INSTRUCTION_ERROR_NAMES, err.value))
    ELSE IF err.typeof = "object" /\ ~err.null /\ err.constructor = "InstructionErrorCustom"
    THEN JsonCustom(err.code)
    ELSE IF err.typeof = "object" /\ ~err.null /\ err.constructor = "InstructionErrorBorshIo"
    THEN JsonBorshIoError(err.msg)
    ELSE JsonString(String(err))

\* Mutant: the lookup table is read one entry too far.
convertTransactionError_OffByOne(err) ==
    IF err.typeof = "number" THEN JsonString(NameOrUnknown(TRANSACTION_ERROR_NAMES, err.value + 1))
    ELSE IF err.typeof # "object" \/ err.null THEN JsonString(String(err))
    ELSE IF err.constructor = "TransactionErrorInstructionError"
    THEN JsonInstructionError(err.index, convertInstructionError(err.err))
    ELSE IF err.constructor = "TransactionErrorDuplicateInstruction"
    THEN JsonDuplicateInstruction(err.index)
    ELSE IF err.constructor = "TransactionErrorInsufficientFundsForRent"
    THEN JsonAccountIndex("InsufficientFundsForRent", err.accountIndex)
    ELSE IF err.constructor = "TransactionErrorProgramExecutionTemporarilyRestricted"
    THEN JsonAccountIndex("ProgramExecutionTemporarilyRestricted", err.accountIndex)
    ELSE JsonString("Unknown(" \o err.constructor \o ")")

convertTransactionError(err) ==
    IF err.typeof = "number" THEN JsonString(NameOrUnknown(TRANSACTION_ERROR_NAMES, err.value))
    ELSE IF err.typeof # "object" \/ err.null THEN JsonString(String(err))
    ELSE IF err.constructor = "TransactionErrorInstructionError"
    THEN JsonInstructionError(err.index, convertInstructionError(err.err))
    ELSE IF err.constructor = "TransactionErrorDuplicateInstruction"
    THEN JsonDuplicateInstruction(err.index)
    ELSE IF err.constructor = "TransactionErrorInsufficientFundsForRent"
    THEN JsonAccountIndex("InsufficientFundsForRent", err.accountIndex)
    ELSE IF err.constructor = "TransactionErrorProgramExecutionTemporarilyRestricted"
    THEN JsonAccountIndex("ProgramExecutionTemporarilyRestricted", err.accountIndex)
    ELSE JsonString("Unknown(" \o err.constructor \o ")")

\* The error codes of @solana/kit, keyed by the names of the network's errors.
TransactionErrorCode(name) == "SOLANA_ERROR__TRANSACTION_ERROR__" \o name
InstructionErrorCode(name) == "SOLANA_ERROR__INSTRUCTION_ERROR__" \o name
SOLANA_ERROR__TRANSACTION_ERROR__ACCOUNT_NOT_FOUND == TransactionErrorCode("AccountNotFound")
SOLANA_ERROR__TRANSACTION_ERROR__UNKNOWN == TransactionErrorCode("Unknown")
SOLANA_ERROR__INSTRUCTION_ERROR__INVALID_INSTRUCTION_DATA ==
    InstructionErrorCode("InvalidInstructionData")
SOLANA_ERROR__INSTRUCTION_ERROR__CUSTOM == InstructionErrorCode("Custom")
SOLANA_ERROR__INSTRUCTION_ERROR__BORSH_IO_ERROR == InstructionErrorCode("BorshIoError")
SOLANA_ERROR__INSTRUCTION_ERROR__UNKNOWN == InstructionErrorCode("Unknown")
SOLANA_ERROR__INSTRUCTION_PLANS__FAILED_TO_EXECUTE_TRANSACTION_PLAN ==
    "SOLANA_ERROR__INSTRUCTION_PLANS__FAILED_TO_EXECUTE_TRANSACTION_PLAN"

\* The names of the network's errors that @solana/kit has a code for.
KnownTransactionErrorNames ==
    Range(TRANSACTION_ERROR_NAMES)
    \cup {"DuplicateInstruction", "InsufficientFundsForRent",
          "ProgramExecutionTemporarilyRestricted"}
KnownInstructionErrorNames == Range(INSTRUCTION_ERROR_NAMES) \cup {"Custom"}

\* getSolanaErrorFromInstructionError of @solana/kit (spec.md 4.6): the
\* error nests the index of the failing instruction and the inner variant.
getSolanaErrorFromInstructionError(index, inner) ==
    LET name == IF inner.json = "string" THEN inner.str ELSE inner.key
    IN  IF name \notin KnownInstructionErrorNames
        THEN [code |-> SOLANA_ERROR__INSTRUCTION_ERROR__UNKNOWN, index |-> index,
              errorName |-> name]
        ELSE IF inner.json = "object" /\ name = "Custom"
        THEN [code |-> SOLANA_ERROR__INSTRUCTION_ERROR__CUSTOM, index |-> index,
              customCode |-> inner.code]
        ELSE IF inner.json = "object" /\ name = "BorshIoError"
        THEN [code |-> SOLANA_ERROR__INSTRUCTION_ERROR__BORSH_IO_ERROR, index |-> index,
              encodedData |-> inner.msg]
        ELSE [code |-> InstructionErrorCode(name), index |-> index]

\* getSolanaErrorFromTransactionError of @solana/kit (spec.md 4.6).
getSolanaErrorFromTransactionError(transactionError) ==
    IF transactionError.json = "object" /\ transactionError.key = "InstructionError"
    THEN getSolanaErrorFromInstructionError(transactionError.index, transactionError.inner)
    ELSE LET name == IF transactionError.json = "string" THEN transactionError.str
                     ELSE transactionError.key
         IN  IF name \notin KnownTransactionErrorNames
             THEN [code |-> SOLANA_ERROR__TRANSACTION_ERROR__UNKNOWN, errorName |-> name]
             ELSE IF transactionError.json = "object" /\ name = "DuplicateInstruction"
             THEN [code |-> TransactionErrorCode(name), index |-> transactionError.index]
             ELSE IF transactionError.json = "object"
             THEN [code |-> TransactionErrorCode(name),
                   accountIndex |-> transactionError.account_index]
             ELSE [code |-> TransactionErrorCode(name)]

getSolanaErrorFromLiteSvmFailure(failed) ==
    getSolanaErrorFromTransactionError(convertTransactionError(failed.err))

(***************************************************************************)
(* LiteSVM: executeTransactionMessage of litesvmTransactionPlanExecutor    *)
(***************************************************************************)
\* Mutant: the result of sendTransaction is never taken for a failure.
isFailedTransaction_Never(metadata) == FALSE

\* 'err' in result && typeof result.err === 'function'
isFailedTransaction(metadata) == "err" \in DOMAIN metadata

NoLeafResult == [status |-> "none"]
\* The failed-to-execute envelope createTransactionPlanExecutor throws; its
\* cause is the error of the failed leaf.
FailedToExecuteTransactionPlan(cause) ==
    [code |-> SOLANA_ERROR__INSTRUCTION_PLANS__FAILED_TO_EXECUTE_TRANSACTION_PLAN,
     cause |-> cause]

\* The leaf function throws e: the leaf is failed and the executor call
\* rejects with the envelope.
LiteSvmThrow(e) ==
    /\ svmPc' = "thrown"
    /\ svmLeafResult' = [status |-> "failed", error |-> e]
    /\ svmThrown' = <<FailedToExecuteTransactionPlan(e)>>

\* The leaf function returns the signed transaction.
LiteSvmReturn ==
    /\ svmPc' = "returned"
    /\ svmLeafResult' = [status |-> "successful"]
    /\ svmThrown' = <<>>

\* transactionPlanExecutor(singleTransactionPlan(message)): the blockhash is
\* read and set, context.message is set and the signing is awaited.
LiteSvmExecute ==
    /\ svmPc = "idle"
    /\ svmPc' = "sign"
    /\ svmContext' = [svmContext EXCEPT !.message = TRUE]
    /\ UNCHANGED <<svmResult, svmLeafResult, svmThrown>>
    /\ UNCHANGED rpcVars
    /\ UNCHANGED installVars
    /\ UNCHANGED helperVars
    /\ UNCHANGED limiterVars

\* Mutant: the metadata is put on the context after the failure check, so
\* only that of a successful send is kept.
LiteSvmSignResolves_MetadataAfterCheck ==
    /\ svmPc = "sign"
    /\ LET sendTransaction == svmResult
       IN  IF isFailedTransaction(sendTransaction)
           THEN /\ svmContext' = [svmContext EXCEPT !.transaction = TRUE]
                /\ LiteSvmThrow(getSolanaErrorFromLiteSvmFailure(sendTransaction))
           ELSE /\ svmContext' = [svmContext EXCEPT !.transaction = TRUE,
                                                    !.transactionMetadata = <<sendTransaction>>]
                /\ LiteSvmReturn
    /\ UNCHANGED svmResult
    /\ UNCHANGED rpcVars
    /\ UNCHANGED installVars
    /\ UNCHANGED helperVars
    /\ UNCHANGED limiterVars

\* signTransactionMessageWithSigners resolves: the transaction is sent, the
\* metadata sendTransaction returns is kept and a failed one is thrown as a
\* SolanaError.
LiteSvmSignResolves ==
    /\ svmPc = "sign"
    /\ LET sendTransaction == svmResult
       IN  /\ svmContext' = [svmContext EXCEPT !.transaction = TRUE,
                                               !.transactionMetadata = <<sendTransaction>>]
           /\ IF isFailedTransaction(sendTransaction)
              THEN LiteSvmThrow(getSolanaErrorFromLiteSvmFailure(sendTransaction))
              ELSE LiteSvmReturn
    /\ UNCHANGED svmResult
    /\ UNCHANGED rpcVars
    /\ UNCHANGED installVars
    /\ UNCHANGED helperVars
    /\ UNCHANGED limiterVars

\* signTransactionMessageWithSigners rejects.
LiteSvmSignRejects ==
    /\ svmPc = "sign"
    /\ LiteSvmThrow(SignerError)
    /\ UNCHANGED <<svmResult, svmContext>>
    /\ UNCHANGED rpcVars
    /\ UNCHANGED installVars
    /\ UNCHANGED helperVars
    /\ UNCHANGED limiterVars

\* The LiteSVM executor of a client on which the plugin was just installed.
LiteSvmInstalled ==
    /\ svmPc = "idle"
    /\ svmContext = [message |-> FALSE, transaction |-> FALSE, transactionMetadata |-> <<>>]
    /\ svmLeafResult = NoLeafResult
    /\ svmThrown = <<>>

(***************************************************************************)
(* Installation of the planner and executor plugins, and the messages the  *)
(* installed planners create                                               *)
(***************************************************************************)
Plugins ==
    {"defaultTransactionPlannerAndExecutorFromRpc", "litesvmTransactionPlanner",
     "litesvmTransactionPlanExecutor"}

\* MicroLamports is a bigint.
BigInt(n) == [typeof |-> "bigint", value |-> n]

\* The truthiness of a value that is undefined or a bigint: undefined and
\* 0n are falsy.
ToBoolean(v) == v.typeof # "undefined" /\ v.value # 0

\* config.priorityFees in micro lamports per compute unit.
PriorityFeesOptions == {Undefined, BigInt(0), BigInt(5)}

\* A client has a capability or not; a config names a payer or not.
Clients == [rpc : BOOLEAN, rpcSubscriptions : BOOLEAN, svm : BOOLEAN, payer : BOOLEAN]
PluginConfigs == [plugin : Plugins, payer : BOOLEAN, priorityFees : PriorityFeesOptions]

\* config.payer ?? client.payer
ResolvedPayer(c, config) ==
    IF config.payer THEN "config.payer" ELSE IF c.payer THEN "client.payer" ELSE "undefined"

\* !client.rpc || !client.rpcSubscriptions
RpcInstanceMissing(c) == ~c.rpc \/ ~c.rpcSubscriptions

\* !client.svm
LiteSvmInstanceMissing(c) == ~c.svm

\* !payer
PayerMissing(c, config) == ResolvedPayer(c, config) = "undefined"

\* Whether the plugin function throws when it is applied to the client.
\* Mutant: the planner plugins do not look for the payer when installed.
InstallThrows_PayerNotChecked(c, config) ==
    CASE config.plugin = "defaultTransactionPlannerAndExecutorFromRpc" -> RpcInstanceMissing(c)
      [] config.plugin = "litesvmTransactionPlanner" -> FALSE
      [] config.plugin = "litesvmTransactionPlanExecutor" -> LiteSvmInstanceMissing(c)

InstallThrows(c, config) ==
    CASE config.plugin = "defaultTransactionPlannerAndExecutorFromRpc" ->
             RpcInstanceMissing(c) \/ PayerMissing(c, config)
      [] config.plugin = "litesvmTransactionPlanner" -> PayerMissing(c, config)
      [] config.plugin = "litesvmTransactionPlanExecutor" -> LiteSvmInstanceMissing(c)

\* The plugins that put a transactionPlanner on the client.
PlannerPlugins == {"defaultTransactionPlannerAndExecutorFromRpc", "litesvmTransactionPlanner"}

\* Transaction messages as the planners build them.
createTransactionMessage(version) ==
    [version |-> version, feePayer |-> "undefined", instructions |-> <<>>]

setTransactionMessageFeePayerSigner(payer, tx) == [tx EXCEPT !.feePayer = payer]

appendTransactionMessageInstruction(instruction, tx) ==
    [tx EXCEPT !.instructions = Append(@, instruction)]

getSetComputeUnitLimitInstruction(units) ==
    [type |-> "SetComputeUnitLimit", value |-> units]

getSetComputeUnitPriceInstruction(microLamports) ==
    [type |-> "SetComputeUnitPrice", value |-> microLamports]

HasSetComputeUnitLimitInstruction(tx) ==
    \E i \in 1..Len(tx.instructions) : tx.instructions[i].type = "SetComputeUnitLimit"

\* Appends SetComputeUnitLimit(PROVISORY_COMPUTE_UNIT_LIMIT) to a message
\* that has no compute unit limit instruction.
fillProvisorySetComputeUnitLimitInstruction(tx) ==
    IF HasSetComputeUnitLimitInstruction(tx)
    THEN tx
    ELSE appendTransactionMessageInstruction(
             getSetComputeUnitLimitInstruction(PROVISORY_COMPUTE_UNIT_LIMIT), tx)

\* Mutant: the priority fee instruction is appended whether or not
\* priority fees are configured.
PlannerCreateTransactionMessage_AlwaysPriced(payer, priorityFees) ==
    LET tx0 == createTransactionMessage(0)
        tx1 == setTransactionMessageFeePayerSigner(payer, tx0)
        tx2 == fillProvisorySetComputeUnitLimitInstruction(tx1)
    IN  appendTransactionMessageInstruction(getSetComputeUnitPriceInstruction(priorityFees), tx2)

\* pipe(createTransactionMessage({ version: 0 }), fee payer, provisory
\* limit, priority fees), as both the RPC and the LiteSVM planner have it.
PlannerCreateTransactionMessage(payer, priorityFees) ==
    LET tx0 == createTransactionMessage(0)
        tx1 == setTransactionMessageFeePayerSigner(payer, tx0)
        tx2 == fillProvisorySetComputeUnitLimitInstruction(tx1)
    IN  IF ToBoolean(priorityFees)
        THEN appendTransactionMessageInstruction(getSetComputeUnitPriceInstruction(priorityFees), tx2)
        ELSE tx2

\* client.use(plugin(config)): the plugin function runs and throws, or
\* returns the extended client.
Install ==
    /\ installPc = "pending"
    /\ installPc' = IF InstallThrows(client, pluginConfig) THEN "thrown" ELSE "installed"
    /\ UNCHANGED <<client, pluginConfig, built>>
    /\ UNCHANGED <<rpcVars, svmVars, helperVars, limiterVars>>

\* The installed transactionPlanner asks for one more transaction message.
PlannerCreatesMessage ==
    /\ installPc = "installed"
    /\ pluginConfig.plugin \in PlannerPlugins
    /\ Len(built) < MaxMessages
    /\ built' = Append(built, PlannerCreateTransactionMessage(
                                  ResolvedPayer(client, pluginConfig), pluginConfig.priorityFees))
    /\ UNCHANGED <<client, pluginConfig, installPc>>
    /\ UNCHANGED <<rpcVars, svmVars, helperVars, limiterVars>>

\* No plugin is being installed.
NoInstallation ==
    /\ client = [rpc |-> TRUE, rpcSubscriptions |-> TRUE, svm |-> TRUE, payer |-> TRUE]
    /\ pluginConfig = [plugin |-> "defaultTransactionPlannerAndExecutorFromRpc",
                       payer |-> FALSE, priorityFees |-> Undefined]
    /\ installPc = "installed"
    /\ built = <<>>

(***************************************************************************)
(* Send/plan helper: planTransaction, planTransactions, sendTransaction    *)
(* and sendTransactions of planAndSendTransactions                         *)
(***************************************************************************)
HelperFunctions == {"planTransaction", "planTransactions", "sendTransaction", "sendTransactions"}
PlanFunctions == {"planTransaction", "planTransactions"}
SendFunctions == {"sendTransaction", "sendTransactions"}

\* Instruction plans; only their kind and size are kept.
singleInstructionPlan == [kind |-> "single", instructions |-> 1]
sequentialInstructionPlan(n) == [kind |-> "sequential", instructions |-> n]
parallelInstructionPlan(n) == [kind |-> "parallel", instructions |-> n]

\* The inputs of the helper.  An instruction plan or a transaction plan is
\* given as it is; the other inputs are told apart by their shape.
InstructionInput == [is |-> "Instruction"]
InstructionArrayInput(n) == [is |-> "Instruction[]", length |-> n]
TransactionMessageInput(m) == [is |-> "TransactionMessage", message |-> m]
TransactionMessageArrayInput(ms) == [is |-> "TransactionMessage[]", messages |-> ms]

\* The messages of the inputs and of the planned transactions.
HelperMessages == 1..MaxMessages

HelperTransactionPlans ==
    { singleTransactionPlan(m) : m \in HelperMessages }
        \cup { sequentialTransactionPlan(<<singleTransactionPlan(1), singleTransactionPlan(2)>>),
               parallelTransactionPlan(<<singleTransactionPlan(2), singleTransactionPlan(1)>>) }

InstructionShapedInputs ==
    {InstructionInput, InstructionArrayInput(2), parallelInstructionPlan(2)}

TransactionShapedInputs ==
    { TransactionMessageInput(m) : m \in HelperMessages }
        \cup { TransactionMessageArrayInput(ms) : ms \in {<<>>, <<1, 2>>, <<2, 1>>} }
        \cup HelperTransactionPlans

\* An instruction plan as it is, an array of instructions as a sequential
\* plan, an instruction as a single plan.
parseInstructionPlanInput(input) ==
    IF "kind" \in DOMAIN input THEN input
    ELSE IF input.is = "Instruction[]" THEN sequentialInstructionPlan(input.length)
    ELSE singleInstructionPlan

\* A transaction plan as it is, a transaction message as a single plan, an
\* array of transaction messages as a sequential plan of them, anything else
\* as an instruction plan.
parseInstructionOrTransactionPlanInput(input) ==
    IF "kind" \in DOMAIN input THEN input
    ELSE IF input.is = "TransactionMessage" THEN singleTransactionPlan(input.message)
    ELSE IF input.is = "TransactionMessage[]"
    THEN sequentialTransactionPlan([i \in 1..Len(input.messages) |->
                                       singleTransactionPlan(input.messages[i])])
    ELSE parseInstructionPlanInput(input)

isTransactionPlan(p) == "plans" \in DOMAIN p

\* What the mocked executor resolves with.
singleTransactionPlanResult(m, status) ==
    [kind |-> "single", id |-> m, status |-> status, plans |-> <<>>]

HelperResults ==
    { singleTransactionPlanResult(1, st) : st \in TerminalStatus }
        \cup { [kind |-> "sequential", id |-> 0, status |-> "none",
                plans |-> <<singleTransactionPlanResult(1, "successful")>>] }

\* The errors a call of the helper rejects with.
AbortError == [code |-> "AbortError"]
PlannerError == [code |-> "PlannerError"]
ExecutorError == [code |-> "ExecutorError"]
SOLANA_ERROR__INSTRUCTION_PLANS__UNEXPECTED_TRANSACTION_PLAN ==
    [code |-> "SOLANA_ERROR__INSTRUCTION_PLANS__UNEXPECTED_TRANSACTION_PLAN"]
SOLANA_ERROR__INSTRUCTION_PLANS__UNEXPECTED_TRANSACTION_PLAN_RESULT ==
    [code |-> "SOLANA_ERROR__INSTRUCTION_PLANS__UNEXPECTED_TRANSACTION_PLAN_RESULT"]

Pending == [status |-> "pending"]
Returned(v) == [status |-> "returned", value |-> v]
Rejected(e) == [status |-> "thrown", error |-> e]

\* Mutant: planTransactions calls the planner whatever the signal says.
AbortedBeforePlanning_NotChecked == FALSE

\* config?.abortSignal?.throwIfAborted() of planTransactions.
AbortedBeforePlanning == helperCall.abortSignal # "undefined" /\ aborted

\* Mutant: the executor is called whatever the signal says.
AbortedBeforeExecution_NotChecked == FALSE

\* config?.abortSignal?.throwIfAborted() before the executor is called.
AbortedBeforeExecution == helperCall.abortSignal # "undefined" /\ aborted

\* config?.abortSignal?.throwIfAborted() on entering sendTransaction(s).
AbortedOnEntry == helperCall.abortSignal # "undefined" /\ aborted

\* Mutant: only a single transaction plan is taken as it is.
TakenAsTransactionPlan_SingleOnly(parsed) == isTransactionPlan(parsed) /\ parsed.kind = "single"

\* isTransactionPlan(plan) ? plan : await planTransaction(s)(plan, config)
TakenAsTransactionPlan(parsed) == isTransactionPlan(parsed)

\* Mutant: planTransaction takes the first message of whatever was planned.
PlanTransactionThrows_Never(transactionPlan) == FALSE

\* assertIsSingleTransactionPlan(transactionPlan) of planTransaction throws.
PlanTransactionThrows(transactionPlan) == transactionPlan.kind # "single"

\* Mutant: sendTransaction only looks at the kind of the result.
SendTransactionThrows_KindOnly(res) == res.kind # "single"

\* assertIsSuccessfulSingleTransactionPlanResult(result) of sendTransaction throws.
SendTransactionThrows(res) == ~(res.kind = "single" /\ res.status = "successful")

\* The first message of a plan.
RECURSIVE FirstMessage(_)
FirstMessage(p) == IF p.kind = "single" \/ Len(p.plans) = 0 THEN p.id ELSE FirstMessage(p.plans[1])

HelperThrow(e) ==
    /\ helperPc' = "thrown"
    /\ helperOutcome' = Rejected(e)

HelperReturn(v) ==
    /\ helperPc' = "returned"
    /\ helperOutcome' = Returned(v)

\* client.transactionPlanner(instructionPlan, config) is called and awaited.
CallPlanner(parsed) ==
    LET instructionPlan == parseInstructionPlanInput(parsed)
    IN  IF AbortedBeforePlanning
        THEN HelperThrow(AbortError) /\ UNCHANGED <<plannerCalls, executorCalls>>
        ELSE /\ plannerCalls' = Append(plannerCalls, instructionPlan)
             /\ helperPc' = "planning"
             /\ UNCHANGED <<executorCalls, helperOutcome>>

\* client.transactionPlanExecutor(transactionPlan, config) is called and awaited.
CallExecutor(transactionPlan) ==
    IF AbortedBeforeExecution
    THEN HelperThrow(AbortError) /\ UNCHANGED <<plannerCalls, executorCalls>>
    ELSE /\ executorCalls' = Append(executorCalls, transactionPlan)
         /\ helperPc' = "executing"
         /\ UNCHANGED <<plannerCalls, helperOutcome>>

\* The helper is called: it runs up to its first awaited call.
HelperCalled ==
    /\ helperPc = "idle"
    /\ IF helperCall.fn \in PlanFunctions
       THEN CallPlanner(helperCall.input)
       ELSE LET parsed == parseInstructionOrTransactionPlanInput(helperCall.input)
            IN  IF AbortedOnEntry
                THEN HelperThrow(AbortError) /\ UNCHANGED <<plannerCalls, executorCalls>>
                ELSE IF TakenAsTransactionPlan(parsed)
                THEN CallExecutor(parsed)
                ELSE CallPlanner(parsed)
    /\ UNCHANGED <<helperCall, aborted, plannerResults, executorResults>>
    /\ UNCHANGED <<rpcVars, svmVars, installVars, limiterVars>>

\* The planner resolves with a transaction plan.
PlannerResolves(transactionPlan) ==
    /\ helperPc = "planning"
    /\ CASE helperCall.fn = "planTransactions" ->
                HelperReturn(transactionPlan) /\ UNCHANGED <<plannerCalls, executorCalls>>
         [] helperCall.fn = "planTransaction" ->
                /\ IF PlanTransactionThrows(transactionPlan)
                   THEN HelperThrow(SOLANA_ERROR__INSTRUCTION_PLANS__UNEXPECTED_TRANSACTION_PLAN)
                   ELSE HelperReturn([message |-> FirstMessage(transactionPlan)])
                /\ UNCHANGED <<plannerCalls, executorCalls>>
         [] helperCall.fn = "sendTransactions" -> CallExecutor(transactionPlan)
         [] helperCall.fn = "sendTransaction" ->
                IF PlanTransactionThrows(transactionPlan)
                THEN /\ HelperThrow(SOLANA_ERROR__INSTRUCTION_PLANS__UNEXPECTED_TRANSACTION_PLAN)
                     /\ UNCHANGED <<plannerCalls, executorCalls>>
                ELSE CallExecutor(singleTransactionPlan(FirstMessage(transactionPlan)))
    /\ plannerResults' = Append(plannerResults, transactionPlan)
    /\ UNCHANGED <<helperCall, aborted, executorResults>>
    /\ UNCHANGED <<rpcVars, svmVars, installVars, limiterVars>>

\* The planner rejects.
PlannerRejects ==
    /\ helperPc = "planning"
    /\ HelperThrow(PlannerError)
    /\ UNCHANGED <<helperCall, aborted, plannerCalls, executorCalls, plannerResults,
                   executorResults>>
    /\ UNCHANGED <<rpcVars, svmVars, installVars, limiterVars>>

\* The executor resolves with a result.
ExecutorResolves(res) ==
    /\ helperPc = "executing"
    /\ IF helperCall.fn = "sendTransaction" /\ SendTransactionThrows(res)
       THEN HelperThrow(SOLANA_ERROR__INSTRUCTION_PLANS__UNEXPECTED_TRANSACTION_PLAN_RESULT)
       ELSE HelperReturn(res)
    /\ executorResults' = Append(executorResults, res)
    /\ UNCHANGED <<helperCall, aborted, plannerCalls, executorCalls, plannerResults>>
    /\ UNCHANGED <<rpcVars, svmVars, installVars, limiterVars>>

\* The executor rejects.
ExecutorRejects ==
    /\ helperPc = "executing"
    /\ HelperThrow(ExecutorError)
    /\ UNCHANGED <<helperCall, aborted, plannerCalls, executorCalls, plannerResults,
                   executorResults>>
    /\ UNCHANGED <<rpcVars, svmVars, installVars, limiterVars>>

\* The caller aborts the signal while the planner or the executor is awaited.
Abort ==
    /\ helperPc \in {"planning", "executing"}
    /\ helperCall.abortSignal # "undefined"
    /\ ~aborted
    /\ aborted' = TRUE
    /\ UNCHANGED <<helperCall, helperPc, plannerCalls, executorCalls, plannerResults,
                   executorResults, helperOutcome>>
    /\ UNCHANGED <<rpcVars, svmVars, installVars, limiterVars>>

\* config.abortSignal: not given, given and not aborted, given and aborted
\* already.
AbortSignals == {"undefined", "live", "aborted"}

\* The calls of the helper: the plan functions take instructions, the send
\* functions take anything.
HelperCalls ==
    { c \in [fn : HelperFunctions,
             input : InstructionShapedInputs \cup TransactionShapedInputs,
             abortSignal : AbortSignals] :
        c.fn \in PlanFunctions => c.input \in InstructionShapedInputs }

\* No call of the helper was made.
HelperIdle ==
    /\ helperPc = "idle"
    /\ plannerCalls = <<>>
    /\ executorCalls = <<>>
    /\ plannerResults = <<>>
    /\ executorResults = <<>>
    /\ helperOutcome = Pending

NoHelperCall ==
    /\ helperCall = [fn |-> "sendTransactions", input |-> InstructionInput,
                     abortSignal |-> "undefined"]
    /\ aborted = FALSE
    /\ HelperIdle

(***************************************************************************)
(* limitFunction as a function of its own: the closures it creates, the    *)
(* calls made through them and the promises it returns                     *)
(***************************************************************************)
\* The invocations of transactionPlanExecutor that call the limited function.
Invocations == {1, 2}

\* The arguments of a call: the transaction message to execute.
LimiterArguments == {1, 2}

\* The closures of limitFunction: 0 is the one made when the plugin is
\* installed.
Closures == {0} \cup Invocations

\* Mutant: limitFunction is applied in the executor call, so that every
\* invocation has a closure of its own.
LimiterOf_PerInvocation(invocation) == invocation

\* limitFunction is applied once, when the plugin function runs, and the
\* function it returns is given to createTransactionPlanExecutor: every
\* invocation calls that one function.
LimiterOf(invocation) == 0

\* What fn returns or throws for its arguments.
FnValue(args) == [signedTransaction |-> args]
FnError(args) == [code |-> "TransactionError", message |-> args]

\* fn threw instead of returning a promise.
ThrownSynchronously(e) == [status |-> "threw", error |-> e]

\* The state of the limiter as one record; threw tells that the last
\* process() was left by an exception.
LimiterState ==
    [limiters |-> limiters, limitedCalls |-> limitedCalls, fnCalls |-> fnCalls, threw |-> FALSE]

CommitLimiter(L) ==
    /\ limiters' = L.limiters
    /\ limitedCalls' = L.limitedCalls
    /\ fnCalls' = L.fnCalls
    /\ UNCHANGED throwsSynchronously
    /\ UNCHANGED <<rpcVars, svmVars, installVars, helperVars>>

\* Mutant: fn is called with the arguments of the newest entry of the
\* queue and the resolvers of the oldest.
processLimiter_ArgumentsOfNewest(L, c) ==
    LET lim == L.limiters[c]
    IN  IF lim.running >= maxConcurrency \/ Len(lim.queue) = 0 THEN L
        ELSE LET entry == Head(lim.queue)
                 args == lim.queue[Len(lim.queue)].args
                 throws == args \in throwsSynchronously
             IN  [L EXCEPT !.limiters[c] = [running |-> lim.running + 1,
                                            queue |-> Tail(lim.queue)],
                           !.fnCalls = Append(@, [limiter |-> c, args |-> args,
                                                  call |-> entry.call,
                                                  outcome |-> IF throws
                                                              THEN ThrownSynchronously(FnError(args))
                                                              ELSE Pending]),
                           !.threw = throws]

\* process() of the closure c: running++, queue.shift(), fn(...args).  When
\* fn throws, the exception leaves process() before a promise exists:
\* neither resolve nor reject of the entry is attached to anything and no
\* finally callback will run for it.
processLimiter(L, c) ==
    LET lim == L.limiters[c]
    IN  IF lim.running >= maxConcurrency \/ Len(lim.queue) = 0 THEN L
        ELSE LET entry == Head(lim.queue)
                 throws == entry.args \in throwsSynchronously
             IN  [L EXCEPT !.limiters[c] = [running |-> lim.running + 1,
                                            queue |-> Tail(lim.queue)],
                           !.fnCalls = Append(@, [limiter |-> c, args |-> entry.args,
                                                  call |-> entry.call,
                                                  outcome |-> IF throws
                                                              THEN ThrownSynchronously(
                                                                       FnError(entry.args))
                                                              ELSE Pending]),
                           !.threw = throws]

\* The function limitFunction returns is called by an invocation of the
\* executor: new Promise((resolve, reject) => { queue.push(...); process(); }).
\* An exception that leaves the executor of the promise rejects that promise.
LimitedCall(invocation, args) ==
    /\ Len(limitedCalls) < MaxCalls
    /\ LET c == LimiterOf(invocation)
           n == Len(limitedCalls) + 1
           L0 == [LimiterState EXCEPT
                     !.limiters[c].queue = Append(@, [args |-> args, call |-> n]),
                     !.limitedCalls = Append(@, [invocation |-> invocation, args |-> args,
                                                 promise |-> Pending])]
           L1 == processLimiter(L0, c)
           thrown == L1.fnCalls[Len(L1.fnCalls)].outcome.error
       IN  CommitLimiter(IF L1.threw
                         THEN [L1 EXCEPT !.limitedCalls[n].promise = Rejected(thrown)]
                         ELSE L1)

\* The promise fn returned settles with outcome: .then(resolve) or
\* .catch(reject) settles the promise of the call, and the finally callback
\* frees the slot and calls process().  An exception that leaves process()
\* there rejects the promise of the chain, which nobody holds.
FnSettles(k, outcome) ==
    LET call == fnCalls[k].call
        c == fnCalls[k].limiter
        L0 == [LimiterState EXCEPT
                  !.fnCalls[k].outcome = outcome,
                  !.limitedCalls[call].promise = IF @ = Pending THEN outcome ELSE @]
        L1 == [L0 EXCEPT !.limiters[c].running = @ - 1]
    IN  CommitLimiter(processLimiter(L1, c))

FnResolves(k) ==
    /\ fnCalls[k].outcome = Pending
    /\ FnSettles(k, Returned(FnValue(fnCalls[k].args)))

FnRejects(k) ==
    /\ fnCalls[k].outcome = Pending
    /\ FnSettles(k, Rejected(FnError(fnCalls[k].args)))

\* No call of a limited function was made.
NoLimitedCalls ==
    /\ limiters = [c \in Closures |-> [running |-> 0, queue |-> <<>>]]
    /\ limitedCalls = <<>>
    /\ fnCalls = <<>>

\* The limiter as installed: fn is an async function, which returns a
\* promise whatever happens in it.
LimiterInstalled ==
    /\ throwsSynchronously = {}
    /\ NoLimitedCalls

(***************************************************************************)
(* Specification                                                           *)
(***************************************************************************)
\* The RPC executor before any call.
RpcIdle ==
    /\ phase = "idle"
    /\ running = 0
    /\ queue = <<>>
    /\ pc = [l \in Leaves |-> "unvisited"]
    /\ message = plannedMessage
    /\ simulateCalls = [l \in Leaves |-> 0]
    /\ sendCalls = [l \in Leaves |-> <<>>]
    /\ simulated = [l \in Leaves |-> "none"]
    /\ error = [l \in Leaves |-> NoError]
    /\ result = NoResult
    /\ submitted = <<>>
    /\ started = <<>>
    /\ completed = <<>>

\* The state of a client on which the plugin was just installed.
Installed ==
    /\ unitsConsumed \in UnitsSet
    /\ sendRejection \in SendErrors
    /\ maxConcurrency \in 1..MaxConcurrencyBound
    /\ RpcIdle
    /\ LiteSvmInstalled
    /\ NoInstallation
    /\ NoHelperCall
    /\ LimiterInstalled

\* Any of the plans, with any messages, under any configuration.
Init ==
    /\ plan \in PlanSet
    /\ plannedMessage \in { f \in [Leaves -> MessageSet] :
                              \A l \in Leaves \ LeafIds(plan) : f[l] = NoLimit }
    /\ skipPreflight \in SkipPreflightOptions
    /\ svmResult = TransactionMetadata
    /\ Installed

\* The four-branch parallel plan of messages built by the RPC planner
\* (provisory compute unit limit), under the default skipPreflight.
InitParallel ==
    /\ plan = FourBranchPlan
    /\ plannedMessage = [l \in Leaves |-> WithLimit(PROVISORY_COMPUTE_UNIT_LIMIT)]
    /\ skipPreflight = "undefined"
    /\ svmResult = TransactionMetadata
    /\ Installed

\* The LiteSVM executor given a single transaction plan, on a simulator
\* whose sendTransaction returns any of the results.
InitLiteSvm ==
    /\ plan = singleTransactionPlan(1)
    /\ plannedMessage = [l \in Leaves |-> NoLimit]
    /\ skipPreflight = "undefined"
    /\ unitsConsumed = 42
    /\ sendRejection = SimulationFailedError
    /\ maxConcurrency = 1
    /\ svmResult \in SendTransactionResults
    /\ Installed

Next ==
    \/ Execute
    \/ \E l \in Leaves : GetLatestBlockhash(l)
    \/ \E l \in Leaves : EstimateSucceeds(l)
    \/ \E l \in Leaves : EstimateFailsSimulation(l)
    \/ \E l \in Leaves : EstimateRejects(l)
    \/ \E l \in Leaves : SignResolves(l)
    \/ \E l \in Leaves : SignRejects(l)
    \/ \E l \in Leaves : SendResolves(l)
    \/ \E l \in Leaves : SendRejects(l)

Spec == Init /\ [][Next]_vars

SpecParallel == InitParallel /\ [][Next]_vars

NextLiteSvm ==
    \/ LiteSvmExecute
    \/ LiteSvmSignResolves
    \/ LiteSvmSignRejects

SpecLiteSvm == InitLiteSvm /\ [][NextLiteSvm]_vars

\* Any plugin, with any config, installed on any client.
InitInstall ==
    /\ client \in Clients
    /\ pluginConfig \in PluginConfigs
    /\ installPc = "pending"
    /\ built = <<>>
    /\ plan = singleTransactionPlan(1)
    /\ plannedMessage = [l \in Leaves |-> NoLimit]
    /\ skipPreflight = "undefined"
    /\ svmResult = TransactionMetadata
    /\ unitsConsumed = 42
    /\ sendRejection = SimulationFailedError
    /\ maxConcurrency = 1
    /\ RpcIdle
    /\ LiteSvmInstalled
    /\ NoHelperCall
    /\ LimiterInstalled

NextInstall ==
    \/ Install
    \/ PlannerCreatesMessage

SpecInstall == InitInstall /\ [][NextInstall]_vars

\* Any call of the helper, on a client whose planner and executor are mocks.
InitHelper ==
    /\ helperCall \in HelperCalls
    /\ aborted = (helperCall.abortSignal = "aborted")
    /\ HelperIdle
    /\ plan = singleTransactionPlan(1)
    /\ plannedMessage = [l \in Leaves |-> NoLimit]
    /\ skipPreflight = "undefined"
    /\ svmResult = TransactionMetadata
    /\ unitsConsumed = 42
    /\ sendRejection = SimulationFailedError
    /\ maxConcurrency = 1
    /\ RpcIdle
    /\ LiteSvmInstalled
    /\ NoInstallation
    /\ LimiterInstalled

NextHelper ==
    \/ HelperCalled
    \/ \E transactionPlan \in HelperTransactionPlans : PlannerResolves(transactionPlan)
    \/ PlannerRejects
    \/ \E res \in HelperResults : ExecutorResolves(res)
    \/ ExecutorRejects
    \/ Abort

SpecHelper == InitHelper /\ [][NextHelper]_vars

\* Calls of the limited function by the invocations of the installed
\* executor.
InitLimiter ==
    /\ LimiterInstalled
    /\ plan = singleTransactionPlan(1)
    /\ plannedMessage = [l \in Leaves |-> NoLimit]
    /\ skipPreflight = "undefined"
    /\ svmResult = TransactionMetadata
    /\ unitsConsumed = 42
    /\ sendRejection = SimulationFailedError
    /\ maxConcurrency \in 1..MaxConcurrencyBound
    /\ RpcIdle
    /\ LiteSvmInstalled
    /\ NoInstallation
    /\ NoHelperCall

\* The same calls when limitFunction wraps a function that may throw
\* instead of returning a promise.
InitLimiterThrowing ==
    /\ throwsSynchronously \in SUBSET LimiterArguments
    /\ NoLimitedCalls
    /\ plan = singleTransactionPlan(1)
    /\ plannedMessage = [l \in Leaves |-> NoLimit]
    /\ skipPreflight = "undefined"
    /\ svmResult = TransactionMetadata
    /\ unitsConsumed = 42
    /\ sendRejection = SimulationFailedError
    /\ maxConcurrency \in 1..MaxConcurrencyBound
    /\ RpcIdle
    /\ LiteSvmInstalled
    /\ NoInstallation
    /\ NoHelperCall

NextLimiter ==
    \/ \E invocation \in Invocations, args \in LimiterArguments : LimitedCall(invocation, args)
    \/ \E k \in 1..MaxCalls : k <= Len(fnCalls) /\ FnResolves(k)
    \/ \E k \in 1..MaxCalls : k <= Len(fnCalls) /\ FnRejects(k)

SpecLimiter == InitLimiter /\ [][NextLimiter]_vars

SpecLimiterThrowing == InitLimiterThrowing /\ [][NextLimiter]_vars

TypeOK ==
    /\ running \in 0..maxConcurrency
    /\ phase \in {"idle", "executing", "returned", "thrown"}

\* The executor call is made, and an awaited call of a started leaf
\* execution eventually resolves or rejects.
SpecParallelFair == SpecParallel /\ WF_vars(Next)

\* config.maxConcurrency is a number that the plugin does not validate:
\* zero and negative numbers are taken as they are.
MaxConcurrencyOptions == {-1, 0} \cup 1..MaxConcurrencyBound

\* The plans of messages built by the RPC planner, under the default
\* skipPreflight and any maxConcurrency the plugin accepts.
InitAnyConcurrency ==
    /\ plan \in PlanSet
    /\ plannedMessage = [l \in Leaves |-> IF l \in LeafIds(plan)
                                          THEN WithLimit(PROVISORY_COMPUTE_UNIT_LIMIT)
                                          ELSE NoLimit]
    /\ skipPreflight = "undefined"
    /\ svmResult = TransactionMetadata
    /\ unitsConsumed \in UnitsSet
    /\ sendRejection \in SendErrors
    /\ maxConcurrency \in MaxConcurrencyOptions
    /\ RpcIdle
    /\ LiteSvmInstalled
    /\ NoInstallation
    /\ NoHelperCall
    /\ LimiterInstalled

SpecAnyConcurrencyFair == InitAnyConcurrency /\ [][Next]_vars /\ WF_vars(Next)

(***************************************************************************)
(* Properties                                                              *)
(***************************************************************************)
AwaitingStatus == {"blockhash", "estimate", "sign", "send"}

\* The leaf executions that have started and not yet settled.
InFlight == { l \in Leaves : pc[l] \in AwaitingStatus }

Settled == { l \in Leaves : pc[l] \in {"successful", "failed"} }

Min(a, b) == IF a < b THEN a ELSE b

Done == phase \in {"returned", "thrown"}

\* C1: at every moment the number of leaf executions that have started and
\* not yet settled is at most maxConcurrency, also when the parallel node
\* has more branches than maxConcurrency.
C1_AtMostMaxConcurrencyInFlight == Cardinality(InFlight) <= maxConcurrency

C1_Witness ==
    /\ Cardinality(LeafIds(plan)) > maxConcurrency
    /\ Cardinality(InFlight) = maxConcurrency
    /\ queue # <<>>

\* C2: provided every started leaf execution eventually settles, every call
\* submitted to the limiter is eventually started and settles, and all the
\* leaves of the parallel node are eventually executed.
C2_EverySubmittedCallRuns ==
    (phase # "idle") ~> (/\ Done
                         /\ LeafIds(plan) \subseteq Range(submitted)
                         /\ \A l \in Range(submitted) : l \in Range(started) /\ l \in Settled)

C2_Witness ==
    /\ Done
    /\ Len(submitted) > maxConcurrency
    /\ Range(submitted) \subseteq Settled

\* C3: when skipPreflight is false or unset and the estimation simulation
\* of a leaf fails, the leaf execution throws and send-and-confirm is never
\* called for that leaf.
C3_EstimationFailureBlocksSending ==
    \A l \in Leaves :
        (/\ needsComputeUnitEstimation(plannedMessage[l])
         /\ skipPreflight \in {"false", "undefined"}
         /\ simulated[l] = "failed")
        => (pc[l] = "failed" /\ error[l] # NoError /\ sendCalls[l] = <<>>)

C3_Witness ==
    \E l \in Leaves :
        /\ skipPreflight = "undefined"
        /\ simulated[l] = "failed"
        /\ pc[l] = "failed"
        /\ Done

\* The ceiling of 1.1 * u in exact arithmetic.
ExactCeilTimes1_1(u) == (11 * u + 9) \div 10

\* What C4 says of a leaf whose estimation simulation failed under
\* skipPreflight = true, for the compute unit limit `limit`: the failure
\* does not fail the leaf, the message carries the limit, and the
\* transaction is sent, with that limit and skipPreflight = true, once signed.
SentAfterFailedEstimation(l, limit) ==
    /\ message[l] = WithLimit(limit)
    /\ pc[l] \in {"sign", "send", "successful", "failed"}
    /\ pc[l] = "sign" => sendCalls[l] = <<>>
    /\ pc[l] \in {"send", "successful"} => Len(sendCalls[l]) = 1
    /\ pc[l] = "failed" => (Len(sendCalls[l]) = 1 \/ error[l] = SignerError)
    /\ \A i \in 1..Len(sendCalls[l]) :
          /\ sendCalls[l][i].skipPreflight = TRUE
          /\ sendCalls[l][i].message = WithLimit(limit)

FailedEstimationUnderSkipPreflight(l) ==
    /\ needsComputeUnitEstimation(plannedMessage[l])
    /\ skipPreflight = "true"
    /\ simulated[l] = "failed"

\* C4 as stated: when skipPreflight is true and the estimation simulation
\* fails, the transaction is still sent, with the compute unit limit set to
\* the ceiling of 1.1 times the units consumed by the failed simulation and
\* with skipPreflight = true.
C4_Original ==
    \A l \in Leaves :
        FailedEstimationUnderSkipPreflight(l)
        => SentAfterFailedEstimation(l, ExactCeilTimes1_1(unitsConsumed))

\* C4 (amended): when skipPreflight is true and the estimation simulation
\* fails, the transaction is still sent with skipPreflight = true, and the
\* compute unit limit is Math.ceil of the double-precision product
\* unitsConsumed * 1.1: the exact ceiling of 1.1 * unitsConsumed, or one more
\* than it when the product of a multiple of ten rounds up (50 gives 56).
C4_SendsWithRoundedLimit ==
    \A l \in Leaves :
        FailedEstimationUnderSkipPreflight(l)
        => /\ SentAfterFailedEstimation(l, MathCeilTimes1_1(unitsConsumed))
           /\ MathCeilTimes1_1(unitsConsumed) - ExactCeilTimes1_1(unitsConsumed) \in {0, 1}
           /\ unitsConsumed % 10 # 0
                => MathCeilTimes1_1(unitsConsumed) = ExactCeilTimes1_1(unitsConsumed)

C4_Witness ==
    \E l \in Leaves :
        /\ FailedEstimationUnderSkipPreflight(l)
        /\ pc[l] = "successful"
        /\ unitsConsumed = 50
        /\ sendCalls[l][1].message.units = 56

\* C5: for a leaf whose message carries an explicit compute unit limit no
\* simulation call is made, and the skipPreflight passed to the send equals
\* the configured value (false when unset).
C5_ExplicitLimitNoSimulation ==
    \A l \in Leaves :
        ~needsComputeUnitEstimation(plannedMessage[l])
        => /\ simulateCalls[l] = 0
           /\ simulated[l] = "none"
           /\ \A i \in 1..Len(sendCalls[l]) :
                 sendCalls[l][i].skipPreflight = (skipPreflight = "true")

C5_Witness ==
    \E l \in LeafIds(plan) :
        /\ plannedMessage[l] = WithLimit(EXPLICIT_COMPUTE_UNIT_LIMIT)
        /\ skipPreflight = "false"
        /\ Len(sendCalls[l]) = 1
        /\ pc[l] = "successful"

\* The paths of the sequential nodes of the plan.
SequentialPaths == { path \in Paths(plan) : NodeAt(path).kind = "sequential" }

Failed(node) == \E l \in LeafIds(node) : pc[l] = "failed"

\* C6: when a child of a sequential node fails, the leaf execution function
\* is never called for a leaf of a later sibling, and every later sibling is
\* reported as canceled in the result tree.
C6_LaterSiblingsCanceled ==
    \A path \in SequentialPaths :
        \A i, j \in 1..Len(NodeAt(path).plans) :
            (i < j /\ Failed(NodeAt(path).plans[i]))
            => \A l \in LeafIds(NodeAt(path).plans[j]) :
                  /\ l \notin Range(submitted)
                  /\ l \notin Range(started)
                  /\ sendCalls[l] = <<>>
                  /\ pc[l] \in {"unvisited", "canceled"}
                  /\ Done => SubPlan(result, path \o <<j>>) =
                                 TransactionPlanResult([pc |-> [k \in Leaves |-> "canceled"]],
                                                       NodeAt(path \o <<j>>))

C6_Witness ==
    /\ Done
    /\ plan.kind = "sequential"
    /\ Len(plan.plans) = 3
    /\ pc[1] = "successful"
    /\ pc[2] = "failed"
    /\ pc[3] = "canceled"

RECURSIVE Shape(_)
\* The node kinds of a tree, with the children in their positions.
Shape(t) == [kind |-> t.kind, plans |-> [i \in 1..Len(t.plans) |-> Shape(t.plans[i])]]

\* C7: whatever the mix of successful, failed and canceled leaves, the
\* result tree has the shape of the transaction plan.
C7_ResultHasShapeOfPlan == Done => Shape(result) = Shape(plan)

C7_Witness ==
    /\ Done
    /\ Len(plan.plans) = 2
    /\ \E a, b, c \in LeafIds(plan) :
          pc[a] = "successful" /\ pc[b] = "failed" /\ pc[c] = "canceled"

\* C8: queued calls are started in the order in which they were submitted.
C8_StartedInSubmissionOrder ==
    /\ Len(started) <= Len(submitted)
    /\ started = SubSeq(submitted, 1, Len(started))

C8_Witness ==
    /\ Len(started) = 4
    /\ maxConcurrency = 1

\* C9: when a running call settles, by fulfilment or by rejection, its slot
\* is freed and the oldest queued call, if any, is started in it.
C9_SettlingFreesOneSlot ==
    [][\A l \in Leaves :
          (pc[l] \in AwaitingStatus /\ pc'[l] \in {"successful", "failed"})
          => IF queue = <<>>
             THEN running' = running - 1 /\ queue' = <<>>
             ELSE /\ running' = running
                  /\ queue' = Tail(queue)
                  /\ pc'[Head(queue)] = "blockhash"
                  /\ started' = Append(started, Head(queue))]_vars

C9_Witness ==
    /\ pc[1] = "failed"
    /\ Len(started) > maxConcurrency
    /\ running = maxConcurrency

\* C10: while calls are queued exactly maxConcurrency calls are in flight,
\* and one queued call is started per completion: of four branches,
\* maxConcurrency are started at once and each further one after one more
\* completion.
C10_OneStartPerCompletion ==
    /\ queue # <<>> => (running = maxConcurrency /\ Cardinality(InFlight) = maxConcurrency)
    /\ phase # "idle" =>
          Len(started) = Min(Cardinality(LeafIds(plan)), maxConcurrency + Cardinality(Settled))
    /\ Cardinality({ l \in Leaves : pc[l] = "send" }) <= maxConcurrency

C10_Witness ==
    /\ maxConcurrency = 2
    /\ Cardinality({ l \in Leaves : pc[l] = "send" }) = 2
    /\ Cardinality(Settled) = 1
    /\ Len(started) = 3
    /\ Len(queue) = 1

\* The preflight simulations of leaf l: the send-and-confirm calls made
\* without skipPreflight.
Preflights(l) == { i \in 1..Len(sendCalls[l]) : ~sendCalls[l][i].skipPreflight }

\* C11: the skipPreflight passed to send-and-confirm for a leaf is true if
\* and only if config.skipPreflight is true or compute unit estimation was
\* performed for that leaf; a leaf that was estimated is simulated exactly
\* once in total, its send never runs a preflight simulation.
C11_SkipPreflightIffConfiguredOrEstimated ==
    \A l \in Leaves :
        /\ \A i \in 1..Len(sendCalls[l]) :
              sendCalls[l][i].skipPreflight <=> (skipPreflight = "true" \/ simulateCalls[l] > 0)
        /\ simulateCalls[l] > 0 => simulateCalls[l] + Cardinality(Preflights(l)) = 1
        /\ Len(sendCalls[l]) <= 1

C11_Witness ==
    \E l \in Leaves :
        /\ skipPreflight \in {"false", "undefined"}
        /\ simulateCalls[l] = 1
        /\ Len(sendCalls[l]) = 1
        /\ sendCalls[l][1].skipPreflight
        /\ pc[l] = "successful"

\* The messages the claim C12 says need estimation.
NoLimitOrSentinel(m) == ~m.hasLimit \/ m.units = 0 \/ m.units = 1400000

\* The leaves whose execution went past getLatestBlockhash.
PastBlockhash == { l \in Leaves : pc[l] \in {"estimate", "sign", "send", "successful"} }

\* C12: a message is treated as needing estimation if and only if it has
\* no compute unit limit instruction, or its limit is 0, or its limit is
\* 1,400,000; the estimation simulation is run exactly for these messages
\* (once, after the blockhash is fetched).
C12_EstimatedIffNoLimitOrSentinel ==
    /\ \A m \in MessageSet : needsComputeUnitEstimation(m) <=> NoLimitOrSentinel(m)
    /\ \A l \in Leaves :
          /\ simulateCalls[l] \in {0, 1}
          /\ simulateCalls[l] = 1 => NoLimitOrSentinel(plannedMessage[l])
          /\ simulated[l] # "none" => simulateCalls[l] = 1
          /\ l \in PastBlockhash =>
                (simulateCalls[l] = 1 <=> NoLimitOrSentinel(plannedMessage[l]))

C12_Witness ==
    \E a, b, c \in LeafIds(plan) :
        /\ plannedMessage[a] = WithLimit(MAX_COMPUTE_UNIT_LIMIT)
        /\ plannedMessage[b] = WithLimit(EXPLICIT_COMPUTE_UNIT_LIMIT)
        /\ plannedMessage[c] = NoLimit
        /\ pc[a] = "successful" /\ simulateCalls[a] = 1
        /\ pc[b] = "successful" /\ simulateCalls[b] = 0
        /\ pc[c] = "successful" /\ simulateCalls[c] = 1

\* What C13 says of a leaf whose estimation simulation succeeded, for the
\* compute unit limit `limit`: the message that is signed and sent carries
\* one compute unit limit instruction, with that value, whether the planned
\* message had such an instruction or not.
SentWithEstimatedLimit(l, limit) ==
    /\ message[l] = WithLimit(limit)
    /\ \A i \in 1..Len(sendCalls[l]) : sendCalls[l][i].message = WithLimit(limit)

\* C13 as stated: when the estimation simulation succeeds, the message
\* signed and sent carries the limit ceil(unitsConsumed * 1.1).
C13_Original ==
    \A l \in Leaves :
        simulated[l] = "ok" => SentWithEstimatedLimit(l, ExactCeilTimes1_1(unitsConsumed))

\* C13 (amended): when the estimation simulation succeeds, the message
\* signed and sent carries the limit Math.ceil(unitsConsumed * 1.1) of the
\* double-precision product, replacing an existing limit instruction or
\* appended: 47 for 42 units consumed, 56 (not 55) for 50.
C13_SendsWithRoundedEstimate ==
    \A l \in Leaves :
        simulated[l] = "ok"
        => /\ SentWithEstimatedLimit(l, MathCeilTimes1_1(unitsConsumed))
           /\ unitsConsumed = 42 => message[l].units = 47
           /\ unitsConsumed = 50 => message[l].units = 56

C13_Witness ==
    \E a, b \in LeafIds(plan) :
        /\ plannedMessage[a] = NoLimit
        /\ plannedMessage[b] = WithLimit(PROVISORY_COMPUTE_UNIT_LIMIT)
        /\ simulated[a] = "ok" /\ simulated[b] = "ok"
        /\ pc[a] = "successful" /\ pc[b] = "successful"
        /\ sendCalls[a][1].message = WithLimit(47)
        /\ sendCalls[b][1].message = WithLimit(47)

\* The underlying cause of the failed-when-simulating error.
UnderlyingCause == [code |-> SimulationFailedError.cause, cause |-> "none"]

\* The error that leaf l caught, told from what its execution did.
Caught(l) ==
    IF sendCalls[l] # <<>> THEN {sendRejection}
    ELSE IF simulated[l] = "failed" /\ skipPreflight # "true" THEN {SimulationFailedError}
    ELSE IF simulated[l] = "error" THEN {TransportError}
    ELSE {TransportError, SignerError}

\* C14: the error recorded for a failed leaf is the error its execution
\* caught, except that a failed-when-simulating-to-estimate-compute-limit
\* error is replaced by its underlying cause.
C14_RecordedErrorIsUnwrapped ==
    \A l \in Leaves :
        pc[l] = "failed"
        => /\ error[l].code # SimulationFailedError.code
           /\ \E e \in Caught(l) :
                 error[l] = IF e = SimulationFailedError THEN UnderlyingCause ELSE e

C14_Witness ==
    \E a, b \in LeafIds(plan) :
        /\ pc[a] = "failed" /\ simulated[a] = "failed" /\ sendCalls[a] = <<>>
        /\ error[a] = UnderlyingCause
        /\ pc[b] = "failed" /\ sendCalls[b] # <<>>
        /\ sendRejection = SimulationFailedError
        /\ error[b] = UnderlyingCause

\* C16: in a sequential node no leaf of child i+1 is given to the leaf
\* execution function before every leaf of child i has completed
\* successfully; the leaves of a sequential chain are started, and
\* complete, in plan order.
C16_SequentialChildrenInOrder ==
    \A path \in SequentialPaths :
        \A i, j \in 1..Len(NodeAt(path).plans) :
            i < j =>
              \A m \in LeafIds(NodeAt(path).plans[j]) :
                 m \in Range(submitted) =>
                    \A k \in LeafIds(NodeAt(path).plans[i]) :
                       /\ pc[k] = "successful"
                       /\ 0 < Pos(started, k) /\ Pos(started, k) < Pos(submitted, m)
                       /\ 0 < Pos(completed, k)
                       /\ Pos(completed, m) > 0 => Pos(completed, k) < Pos(completed, m)

C16_Witness ==
    /\ Done
    /\ plan.kind = "sequential"
    /\ Len(plan.plans) = 3
    /\ started = <<1, 2, 3>>
    /\ completed = <<1, 2, 3>>
    /\ pc[3] = "failed"

\* The paths of the parallel nodes of the plan.
ParallelPaths == { path \in Paths(plan) : NodeAt(path).kind = "parallel" }

\* The paths of the leaves of the plan.
LeafPaths == { path \in Paths(plan) : NodeAt(path).kind = "single" }

\* C17: whatever the order in which the branches of a parallel node start
\* or complete, the i-th child of its result node is the result of the
\* i-th child of the plan node: it holds, at the same positions, the leaves
\* of that child with their statuses.
C17_ParallelResultsInPlanOrder ==
    Done =>
      \A path \in ParallelPaths :
         /\ SubPlan(result, path).kind = "parallel"
         /\ Len(SubPlan(result, path).plans) = Len(NodeAt(path).plans)
         /\ \A q \in LeafPaths :
               (Len(q) > Len(path) /\ SubSeq(q, 1, Len(path)) = path)
               => /\ SubPlan(result, q).kind = "single"
                  /\ SubPlan(result, q).id = NodeAt(q).id
                  /\ SubPlan(result, q).status = pc[NodeAt(q).id]

C17_Witness ==
    /\ Done
    /\ plan.kind = "parallel"
    /\ completed = <<3, 1, 2>>
    /\ pc[3] = "failed"
    /\ result.plans[2].id = 3
    /\ result.plans[2].status = "failed"
    /\ result.plans[1].plans[2].id = 2
    /\ result.plans[1].plans[2].status = "successful"

\* The LiteSVM executor has called sendTransaction.
LiteSvmSent == svmContext.transaction

\* C18: on the LiteSVM backend, whenever sendTransaction returns a failed
\* result (one with an err method), the executor call throws the
\* failed-to-execute-transaction-plan error whose cause is the normalized
\* transaction error, account-not-found for ordinal 2, and the leaf is not
\* reported as successful.
C18_FailedSendThrows ==
    (LiteSvmSent /\ svmResult # TransactionMetadata)
    => /\ svmPc = "thrown"
       /\ svmLeafResult.status = "failed"
       /\ Len(svmThrown) = 1
       /\ svmThrown[1].code = SOLANA_ERROR__INSTRUCTION_PLANS__FAILED_TO_EXECUTE_TRANSACTION_PLAN
       /\ svmThrown[1].cause = svmLeafResult.error
       /\ svmThrown[1].cause =
              getSolanaErrorFromTransactionError(convertTransactionError(svmResult.err))
       /\ svmResult.err = Number(2)
             => svmThrown[1].cause.code = SOLANA_ERROR__TRANSACTION_ERROR__ACCOUNT_NOT_FOUND

C18_Witness ==
    /\ LiteSvmSent
    /\ svmResult = FailedTransactionMetadata(Number(2))
    /\ svmPc = "thrown"
    /\ svmThrown[1].cause = [code |-> SOLANA_ERROR__TRANSACTION_ERROR__ACCOUNT_NOT_FOUND]

\* The logical failures of a transaction: a named transaction error, or an
\* error of the instruction at an index (named, custom program error, Borsh
\* I/O error).
LogicalFailures ==
    [level : {"transaction"}, name : Range(TRANSACTION_ERROR_NAMES)]
    \cup [level : {"instruction"}, index : InstructionIndexes,
          name : Range(INSTRUCTION_ERROR_NAMES)]
    \cup [level : {"instruction"}, index : InstructionIndexes, name : {"Custom"},
          code : CustomCodes]
    \cup [level : {"instruction"}, index : InstructionIndexes, name : {"BorshIoError"},
          msg : BorshMessages]

\* The numeric value of a variant of a fieldless enum of the simulator.
Ordinal(names, name) == CHOOSE n \in 0..(Len(names) - 1) : names[n + 1] = name

\* A logical failure as the simulator reports it.
LiteSvmFailure(f) ==
    IF f.level = "transaction" THEN Number(Ordinal(TRANSACTION_ERROR_NAMES, f.name))
    ELSE TransactionErrorInstructionError(
             f.index,
             IF "code" \in DOMAIN f THEN InstructionErrorCustom(f.code)
             ELSE IF "msg" \in DOMAIN f THEN InstructionErrorBorshIo(f.msg)
             ELSE Number(Ordinal(INSTRUCTION_ERROR_NAMES, f.name)))

\* A logical failure as the Solana RPC reports it.
RpcFailure(f) ==
    IF f.level = "transaction" THEN JsonString(f.name)
    ELSE JsonInstructionError(
             f.index,
             IF "code" \in DOMAIN f THEN JsonCustom(f.code)
             ELSE IF "msg" \in DOMAIN f THEN JsonBorshIoError(f.msg)
             ELSE JsonString(f.name))

\* Two structured errors satisfy the same error kind predicates: the same
\* code, and the same instruction index if any.
SameErrorKind(a, b) ==
    /\ a.code = b.code
    /\ ("index" \in DOMAIN a) = ("index" \in DOMAIN b)
    /\ "index" \in DOMAIN a => a.index = b.index
    /\ ("customCode" \in DOMAIN a) = ("customCode" \in DOMAIN b)
    /\ "customCode" \in DOMAIN a => a.customCode = b.customCode

InnerVariant(e) ==
    IF e.typeof = "number" THEN JsonString(INSTRUCTION_ERROR_NAMES[e.value + 1])
    ELSE IF e.constructor = "InstructionErrorCustom" THEN JsonCustom(e.code)
    ELSE JsonBorshIoError(e.msg)

\* The instruction errors of the simulator: a variant of its fieldless
\* enum, a custom program error or a Borsh I/O error.
SimulatorInstructionErrors ==
    { Number(n) : n \in 0..(Len(INSTRUCTION_ERROR_NAMES) - 1) }
    \cup { InstructionErrorCustom(c) : c \in CustomCodes }
    \cup { InstructionErrorBorshIo(m) : m \in BorshMessages }

\* C20: an instruction-level failure of the simulator is normalized to an
\* error that nests the index of the failing instruction and exactly one
\* inner variant: the named fieldless variant of its ordinal, Custom(code)
\* for a custom program error, BorshIoError(msg) for a Borsh I/O error.
C20_InstructionErrorNestsIndexAndVariant ==
    \A i \in InstructionIndexes, e \in SimulatorInstructionErrors :
        (LiteSvmSent /\ svmResult = FailedTransactionMetadata(TransactionErrorInstructionError(i, e)))
        => /\ convertTransactionError(svmResult.err) = JsonInstructionError(i, InnerVariant(e))
           /\ svmLeafResult.error = getSolanaErrorFromInstructionError(i, InnerVariant(e))
           /\ svmLeafResult.error.index = i
           /\ e.typeof = "number"
                 => svmLeafResult.error.code =
                        InstructionErrorCode(INSTRUCTION_ERROR_NAMES[e.value + 1])
           /\ (e.typeof = "object" /\ e.constructor = "InstructionErrorCustom")
                 => /\ svmLeafResult.error.code = SOLANA_ERROR__INSTRUCTION_ERROR__CUSTOM
                    /\ svmLeafResult.error.customCode = e.code
           /\ (e.typeof = "object" /\ e.constructor = "InstructionErrorBorshIo")
                 => /\ svmLeafResult.error.code = SOLANA_ERROR__INSTRUCTION_ERROR__BORSH_IO_ERROR
                    /\ svmLeafResult.error.encodedData = e.msg

C20_Witness ==
    /\ LiteSvmSent
    /\ svmResult =
           FailedTransactionMetadata(TransactionErrorInstructionError(1, InstructionErrorCustom(6000)))
    /\ svmPc = "thrown"
    /\ svmLeafResult.error =
           [code |-> SOLANA_ERROR__INSTRUCTION_ERROR__CUSTOM, index |-> 1, customCode |-> 6000]

\* A message that holds a provisory compute unit limit instruction.
HasProvisoryLimit(tx) ==
    \E i \in 1..Len(tx.instructions) :
        /\ tx.instructions[i].type = "SetComputeUnitLimit"
        /\ tx.instructions[i].value = PROVISORY_COMPUTE_UNIT_LIMIT

\* C21: no transaction message built by the LiteSVM planner holds a
\* provisory (0) compute unit limit instruction.
C21_LiteSvmPlannerAddsNoProvisoryLimit ==
    pluginConfig.plugin = "litesvmTransactionPlanner" =>
        \A i \in 1..Len(built) : ~HasProvisoryLimit(built[i])

\* C22: for a leaf for which the LiteSVM executor called the simulator's
\* sendTransaction, the context of the leaf holds the metadata that call
\* returned, whether the send succeeded or failed.
C22_ContextHoldsSimulatorMetadata ==
    LiteSvmSent => svmContext.transactionMetadata = <<svmResult>>

\* A failed send has left its metadata on the context of the failed leaf.
C22_Witness ==
    /\ LiteSvmSent
    /\ svmLeafResult.status = "failed"
    /\ "err" \in DOMAIN svmResult
    /\ svmContext.transactionMetadata = <<svmResult>>

\* The planner was awaited and resolved with a plan that is not a single
\* transaction plan.
PlannedSeveralTransactions ==
    plannerResults # <<>> /\ plannerResults[1].kind # "single"

\* C23: when planning the instructions given to sendTransaction or
\* planTransaction yields a transaction plan that is not a single
\* transaction, the call throws and the executor is never called.
C23_NotSinglePlanThrowsBeforeExecution ==
    (helperCall.fn \in {"sendTransaction", "planTransaction"} /\ PlannedSeveralTransactions) =>
        /\ helperPc = "thrown"
        /\ helperOutcome = Rejected(SOLANA_ERROR__INSTRUCTION_PLANS__UNEXPECTED_TRANSACTION_PLAN)
        /\ executorCalls = <<>>

\* sendTransaction was given instructions that the planner planned as a
\* sequential plan of two transactions.
C23_Witness ==
    /\ helperCall.fn = "sendTransaction"
    /\ plannerCalls # <<>>
    /\ plannerResults =
           <<sequentialTransactionPlan(<<singleTransactionPlan(1), singleTransactionPlan(2)>>)>>
    /\ helperPc = "thrown"
    /\ executorCalls = <<>>

\* A single, successful transaction plan result.
SuccessfulSingle(res) == res.kind = "single" /\ res.status = "successful"

\* C24: sendTransaction returns only when the result of the executor is a
\* single successful result, and returns that result; when the executor
\* resolves with a result that is not single, or is single but failed or
\* canceled, sendTransaction throws.
C24_ReturnsOnlySuccessfulSingleResult ==
    helperCall.fn = "sendTransaction" =>
        /\ helperPc = "returned" =>
               /\ executorResults # <<>>
               /\ SuccessfulSingle(executorResults[1])
               /\ helperOutcome = Returned(executorResults[1])
        /\ (executorResults # <<>> /\ ~SuccessfulSingle(executorResults[1])) =>
               /\ helperPc = "thrown"
               /\ helperOutcome =
                      Rejected(SOLANA_ERROR__INSTRUCTION_PLANS__UNEXPECTED_TRANSACTION_PLAN_RESULT)

\* The executor resolved with a failed single result and sendTransaction
\* threw.
C24_Witness ==
    /\ helperCall.fn = "sendTransaction"
    /\ executorResults = <<singleTransactionPlanResult(1, "failed")>>
    /\ helperPc = "thrown"

\* The transaction plan a transaction-shaped input stands for.
CorrespondingPlan(input) ==
    IF input \in HelperTransactionPlans THEN input
    ELSE IF input.is = "TransactionMessage"
    THEN [kind |-> "single", id |-> input.message, plans |-> <<>>]
    ELSE [kind |-> "sequential", id |-> 0,
          plans |-> [i \in 1..Len(input.messages) |->
                        [kind |-> "single", id |-> input.messages[i], plans |-> <<>>]]]

TransactionShapedCall ==
    helperCall.fn \in SendFunctions /\ helperCall.input \in TransactionShapedInputs

C26_AbortedSignalCallsNothing ==
    helperCall.abortSignal = "aborted" =>
        /\ plannerCalls = <<>>
        /\ executorCalls = <<>>
        /\ helperPc \in {"idle", "thrown"}
        /\ helperPc = "thrown" => helperOutcome = Rejected(AbortError)

\* planTransaction was called with an aborted signal and has rejected.
C26_Witness ==
    /\ helperCall.abortSignal = "aborted"
    /\ helperCall.fn = "planTransaction"
    /\ helperPc = "thrown"
    /\ plannerCalls = <<>>

\* C27: when the signal is aborted while the planner is awaited, the step of
\* sendTransaction(s) that follows the planning rejects and does not call the
\* executor.
C27_AbortWhilePlanningSkipsExecutor ==
    [][(helperCall.fn \in SendFunctions /\ helperPc = "planning" /\ aborted) =>
           /\ executorCalls' = <<>>
           /\ helperPc' \in {"planning", "thrown"}]_vars

\* The signal was aborted while the planner ran; the planner resolved with a
\* single plan and sendTransactions rejected without calling the executor.
C27_Witness ==
    /\ helperCall.fn = "sendTransactions"
    /\ helperCall.abortSignal = "live"
    /\ aborted
    /\ plannerResults = <<singleTransactionPlan(1)>>
    /\ helperPc = "thrown"
    /\ helperOutcome = Rejected(AbortError)
    /\ executorCalls = <<>>

\* The client lacks a capability the plugin requires.
LacksRequiredCapability ==
    LET noPayer == ~pluginConfig.payer /\ ~client.payer
    IN  \/ /\ pluginConfig.plugin = "defaultTransactionPlannerAndExecutorFromRpc"
           /\ (noPayer \/ ~client.rpc \/ ~client.rpcSubscriptions)
        \/ pluginConfig.plugin = "litesvmTransactionPlanner" /\ noPayer
        \/ pluginConfig.plugin = "litesvmTransactionPlanExecutor" /\ ~client.svm

\* C29: installing a planner or executor plugin on a client that lacks a
\* required capability throws during the installation: no client is
\* returned, so no planner or executor call is ever made on it.
C29_MissingCapabilityThrowsAtInstallation ==
    (LacksRequiredCapability /\ installPc # "pending") =>
        /\ installPc = "thrown"
        /\ built = <<>>

\* The RPC plugin was installed on a client with a payer and an rpc but no
\* rpcSubscriptions, and threw.
C29_Witness ==
    /\ pluginConfig.plugin = "defaultTransactionPlannerAndExecutorFromRpc"
    /\ client = [rpc |-> TRUE, rpcSubscriptions |-> FALSE, svm |-> FALSE, payer |-> TRUE]
    /\ installPc = "thrown"

\* The status the result tree holds for the leaf at path.
RECURSIVE LeafStatusIn(_, _)
LeafStatusIn(tree, path) ==
    IF path = <<>> THEN tree.status ELSE LeafStatusIn(tree.plans[Head(path)], Tail(path))

\* The leaves whose send-and-confirm resolved.
SentSuccessfully ==
    { l \in LeafIds(plan) : l \in Range(completed) /\ sendCalls[l] # <<>> /\ error[l] = NoError }

\* C30: when a plan execution fails, the error thrown carries the result
\* tree of the execution, and that tree reports as successful every leaf
\* that completed successfully.
C30_FailureCarriesSuccessfulSiblings ==
    phase = "thrown" =>
        /\ result.kind # "none"
        /\ \A l \in SentSuccessfully : LeafStatusIn(result, PathOf(l)) = "successful"

\* An execution failed after one of its leaves had been sent successfully.
C30_Witness ==
    /\ phase = "thrown"
    /\ SentSuccessfully # {}
    /\ \E l \in SentSuccessfully : LeafStatusIn(result, PathOf(l)) = "successful"
    /\ \E l \in LeafIds(plan) : pc[l] = "failed"

\* The messages the installed RPC planner has created.
RpcPlannerBuilt ==
    IF pluginConfig.plugin = "defaultTransactionPlannerAndExecutorFromRpc" THEN Range(built) ELSE {}

\* The priority fee instructions of a message.
PriorityFeeInstructions(tx) ==
    { i \in 1..Len(tx.instructions) : tx.instructions[i].type = "SetComputeUnitPrice" }

\* The payer given in the config of the plugin comes before the payer of the
\* client.
PayerOfConfigOrClient == IF pluginConfig.payer THEN "config.payer" ELSE "client.payer"

\* C31 as stated: every message created by the RPC planner has the resolved
\* payer as fee payer, holds a provisory compute unit limit instruction, and
\* holds a priority fee instruction if and only if priorityFees is given in
\* the config.
C31_Original ==
    \A tx \in RpcPlannerBuilt :
        /\ tx.feePayer = PayerOfConfigOrClient
        /\ HasProvisoryLimit(tx)
        /\ (PriorityFeeInstructions(tx) # {}) <=> (pluginConfig.priorityFees # Undefined)

\* C31 (amended): every message created by the RPC planner has the resolved
\* payer as fee payer, holds a provisory compute unit limit instruction, and
\* holds a priority fee instruction, of the configured price, if and only
\* if priorityFees is given in the config and is not zero.
C31_PlannerMessageHasPayerLimitAndFees ==
    \A tx \in RpcPlannerBuilt :
        /\ tx.feePayer = PayerOfConfigOrClient
        /\ HasProvisoryLimit(tx)
        /\ (PriorityFeeInstructions(tx) # {}) <=>
               (pluginConfig.priorityFees \notin {Undefined, BigInt(0)})
        /\ \A i \in PriorityFeeInstructions(tx) :
               tx.instructions[i].value = pluginConfig.priorityFees

C31_Witness ==
    /\ pluginConfig.priorityFees = BigInt(0)
    /\ pluginConfig.payer
    /\ client.payer
    /\ Len(built) = MaxMessages
    /\ RpcPlannerBuilt # {}

\* The calls that the limiter has started and that have not settled.
StartedAndNotSettled == Range(started) \ Range(completed)

\* C32: whenever no handler is running, the counter of the limiter equals
\* the number of calls that have been started and have not settled, and it
\* lies between 0 and maxConcurrency.
C32_RunningCountsUnsettledCalls ==
    /\ running = Cardinality(StartedAndNotSettled)
    /\ 0 <= running
    /\ running <= maxConcurrency

C32_Witness ==
    /\ running = maxConcurrency
    /\ completed # <<>>
    /\ queue # <<>>
    /\ \E l \in Range(completed) : pc[l] = "failed"

\* sendTransaction was given a transaction plan of several transactions.
SendTransactionOfSeveral ==
    /\ helperCall.fn = "sendTransaction"
    /\ isTransactionPlan(helperCall.input)
    /\ helperCall.input.kind # "single"

\* C35: sendTransaction given a transaction plan that is not a single plan
\* rejects, and the executor is never invoked.
C35_SeveralTransactionsNeverExecuted ==
    (SendTransactionOfSeveral /\ helperPc # "idle") =>
        /\ executorCalls = <<>>
        /\ helperPc = "thrown"

\* C34: under every maxConcurrency the plugin accepts, zero and negative
\* numbers included, every leaf execution given to the limiter eventually
\* starts and the executor call eventually settles.
C34_EveryAcceptedMaxConcurrencyMakesProgress ==
    /\ \A l \in Leaves : (pc[l] = "queued") ~> (l \in Range(started))
    /\ <>Done

\* C36: when the estimation throws an error that is not the failed
\* simulation error, the leaf fails with that error and nothing is sent,
\* also under skipPreflight = true, and the message keeps its limit; a
\* message is sent after an estimation that threw only when the simulation
\* failed and skipPreflight is true.
C36_OtherEstimationErrorsPropagate ==
    \A l \in LeafIds(plan) :
        /\ simulated[l] = "error" =>
               /\ pc[l] = "failed"
               /\ error[l] = TransportError
               /\ sendCalls[l] = <<>>
               /\ message[l] = plannedMessage[l]
        /\ (sendCalls[l] # <<>> /\ simulated[l] \notin {"none", "ok"}) =>
               (simulated[l] = "failed" /\ skipPreflight = "true")

C36_Witness ==
    /\ skipPreflight = "true"
    /\ \E l \in LeafIds(plan) : simulated[l] = "error" /\ pc[l] = "failed"
    /\ \E l \in LeafIds(plan) : simulated[l] = "failed" /\ sendCalls[l] # <<>>

\* C37: for every leaf, sendAndConfirmTransaction is called at most once,
\* and only in the step in which signing resolves, after the blockhash was
\* fetched and, when the message needs it, the estimation was made; a leaf
\* that fails in the blockhash fetch, the estimation or the signing has no
\* send attempt, and none is made for it later.
C37_SentOnceAfterEarlierStepsSucceeded ==
    [][\A l \in Leaves :
          /\ Len(sendCalls'[l]) <= 1
          /\ sendCalls'[l] # sendCalls[l] =>
                 /\ pc[l] = "sign"
                 /\ pc'[l] = "send"
                 /\ l \in Range(started)
                 /\ needsComputeUnitEstimation(plannedMessage[l]) =>
                        (simulateCalls[l] = 1 /\ simulated[l] \in {"ok", "failed"})
          /\ (pc[l] \in {"blockhash", "estimate", "sign"} /\ pc'[l] = "failed") =>
                 sendCalls'[l] = <<>>
          /\ pc[l] = "failed" => sendCalls'[l] = sendCalls[l]]_vars

C37_Witness ==
    /\ \E l \in LeafIds(plan) :
           pc[l] = "failed" /\ error[l] = SignerError /\ sendCalls[l] = <<>>
    /\ \E l \in LeafIds(plan) :
           pc[l] = "failed" /\ error[l] = TransportError /\ sendCalls[l] = <<>>
    /\ \E l \in LeafIds(plan) : pc[l] = "successful" /\ Len(sendCalls[l]) = 1

\* An ordinal that is not an index of the lookup table.
OutOfTable(names, e) == e.typeof = "number" /\ e.value \notin 0..(Len(names) - 1)

UnknownOrdinal(e) == "Unknown(" \o ToString(e.value) \o ")"

FnInFlight == { k \in 1..Len(fnCalls) : fnCalls[k].outcome = Pending }

\* The invocation of the executor that made the call a call of fn belongs to.
InvocationOf(k) == limitedCalls[fnCalls[k].call].invocation

\* The calls waiting in the queue of a closure.
Queued(c) == { limiters[c].queue[i].call : i \in 1..Len(limiters[c].queue) }

\* C33: the leaf executions in flight, counted over all the invocations of
\* the executor of one client, are never more than maxConcurrency.
C33_CapHoldsAcrossInvocations == Cardinality(FnInFlight) <= maxConcurrency

C33_Witness ==
    /\ Cardinality(FnInFlight) = maxConcurrency
    /\ \E j, k \in FnInFlight : InvocationOf(j) = 1 /\ InvocationOf(k) = 2
    /\ \E n \in Queued(0) : limitedCalls[n].invocation = 2

\* C38: for each call of the limited function, fn is called at most once,
\* and exactly once as soon as the call has left the queue, with the
\* arguments of that call; the promise of the call is pending as long as
\* that call of fn is, and settles with what that call of fn resolved or
\* rejected with.
C38_PromiseSettlesWithOwnOutcome ==
    \A n \in 1..Len(limitedCalls) :
        LET ks == { k \in 1..Len(fnCalls) : fnCalls[k].call = n }
            args == limitedCalls[n].args
        IN  /\ Cardinality(ks) <= 1
            /\ (ks = {}) <=> (\E c \in Closures : n \in Queued(c))
            /\ ks = {} => limitedCalls[n].promise = Pending
            /\ \A k \in ks :
                   /\ fnCalls[k].args = args
                   /\ limitedCalls[n].promise = fnCalls[k].outcome
                   /\ fnCalls[k].outcome \in
                          {Pending, Returned(FnValue(args)), Rejected(FnError(args))}

C38_Witness ==
    /\ Len(limitedCalls) = 3
    /\ limitedCalls[1].args # limitedCalls[2].args
    /\ limitedCalls[1].promise = Rejected(FnError(limitedCalls[1].args))
    /\ limitedCalls[2].promise = Returned(FnValue(limitedCalls[2].args))
    /\ limitedCalls[3].promise = Pending
    /\ \E k \in FnInFlight : fnCalls[k].call = 3

\* The calls of fn that threw instead of returning a promise.
FnThrew == { k \in 1..Len(fnCalls) : fnCalls[k].outcome.status = "threw" }

====
